---- MODULE Spec2Model ----
(***************************************************************************)
(* A model of the geometry format detection and decoding engine of the     *)
(* CSV geometry import plugin (src/geometry_parsers.py) and of the import  *)
(* dialog that calls it (src/import_dialog.py).                            *)
(*                                                                         *)
(* Python strings are sequences of one-character strings, so that prefix,  *)
(* substring, case and hexadecimal tests are computed as the code computes *)
(* them.  Python values that are not strings are tagged records.  A call   *)
(* ends either by returning a value or by raising an exception:            *)
(*   [k |-> "return", v |-> value]   or   [k |-> "raise", e |-> name].     *)
(***************************************************************************)
EXTENDS Integers, Sequences, FiniteSets, TLC

VARIABLES
  fn,      \* the entry point called last, "none" before the first call
  args,    \* what it was called with
  result,  \* its outcome
  log,     \* the messages the call wrote to the message log
  history, \* the earlier calls of the session, with their outcomes
  dialog   \* the import dialog: its fields, widgets and running import_csv calls

vars == <<fn, args, result, log, history, dialog>>

Ret(v) == [k |-> "return", v |-> v]

Raise(e) == [k |-> "raise", e |-> e]

(***************************************************************************)
(* Python values handed to the entry points.                               *)
(***************************************************************************)
PyNone == [t |-> "None", s |-> <<>>]

PyInt(n) == [t |-> "int", s |-> <<>>, n |-> n]

PyStr(s) == [t |-> "str", s |-> s]

IsStr(v) == v.t = "str"

\* Python truthiness: None, 0 and "" are false.
Truthy(v) ==
  CASE v.t = "None" -> FALSE
    [] v.t = "int" -> v.n /= 0
    [] v.t = "float" -> v.f /= [c |-> "finite", n |-> 0]
    [] v.t = "str" -> v.s /= <<>>
    [] OTHER -> TRUE

(***************************************************************************)
(* str methods.                                                            *)
(***************************************************************************)
LowerLetters == <<"a","b","c","d","e","f","g","h","i","j","k","l","m","n","o","p","q","r","s","t","u","v","w","x","y","z">>

UpperLetters == <<"A","B","C","D","E","F","G","H","I","J","K","L","M","N","O","P","Q","R","S","T","U","V","W","X","Y","Z">>

UpperChar(c) ==
  IF \E i \in 1..Len(LowerLetters) : LowerLetters[i] = c
  THEN UpperLetters[CHOOSE i \in 1..Len(LowerLetters) : LowerLetters[i] = c]
  ELSE c

LowerChar(c) ==
  IF \E i \in 1..Len(UpperLetters) : UpperLetters[i] = c
  THEN LowerLetters[CHOOSE i \in 1..Len(UpperLetters) : UpperLetters[i] = c]
  ELSE c

upper(s) == [i \in 1..Len(s) |-> UpperChar(s[i])]

lower(s) == [i \in 1..Len(s) |-> LowerChar(s[i])]

IsSpace(c) == c \in {" ", "\t", "\n", "\r"}

RECURSIVE lstrip(_)
lstrip(s) == IF s /= <<>> /\ IsSpace(Head(s)) THEN lstrip(Tail(s)) ELSE s

RECURSIVE rstrip(_)
rstrip(s) ==
  IF s /= <<>> /\ IsSpace(s[Len(s)]) THEN rstrip(SubSeq(s, 1, Len(s) - 1)) ELSE s

strip(s) == rstrip(lstrip(s))

startswith(s, p) == Len(p) <= Len(s) /\ SubSeq(s, 1, Len(p)) = p

endswith(s, p) == Len(p) <= Len(s) /\ SubSeq(s, Len(s) - Len(p) + 1, Len(s)) = p

\* p in s
contains(s, p) ==
  \E i \in 1..(Len(s) - Len(p) + 1) : SubSeq(s, i, i + Len(p) - 1) = p

\* s[a:] with a zero-based, as Python slices
SliceFrom(s, a) == SubSeq(s, a + 1, Len(s))

\* s[a:b] with a, b zero-based, clipped as Python slices are
Slice(s, a, b) == SubSeq(s, a + 1, IF b < Len(s) THEN b ELSE Len(s))

(***************************************************************************)
(* JSON values, as json.loads builds them: a number, a string, null, a     *)
(* boolean, a list, or a dict (an insertion-ordered sequence of entries    *)
(* with distinct keys).                                                    *)
(***************************************************************************)
JNum(n) == [t |-> "num", v |-> n]

JStr(s) == [t |-> "str", v |-> s]

JNull == [t |-> "null", v |-> 0]

JBool(b) == [t |-> "bool", v |-> b]

JArr(xs) == [t |-> "arr", v |-> xs]

JObj(es) == [t |-> "obj", v |-> es]

Entry(k, v) == [k |-> k, v |-> v]

\* key in d
HasKey(d, k) == \E i \in 1..Len(d.v) : d.v[i].k = k

\* d[k] for a key that is present
DictAt(d, k) == d.v[CHOOSE i \in 1..Len(d.v) : d.v[i].k = k].v

\* d.get(k, dflt)
DictGet(d, k, dflt) == IF HasKey(d, k) THEN DictAt(d, k) ELSE dflt

\* d[k] = v: a repeated key keeps its first position and takes the last value
DictSet(es, k, v) ==
  IF \E i \in 1..Len(es) : es[i].k = k
  THEN [i \in 1..Len(es) |-> IF es[i].k = k THEN Entry(k, v) ELSE es[i]]
  ELSE Append(es, Entry(k, v))

\* a JSON value compared with a str
IsJStr(v, s) == v.t = "str" /\ v.v = s

(***************************************************************************)
(* json.loads: a recursive-descent reading of the JSON grammar (objects,   *)
(* arrays, strings without escapes, integers, null, true, false).  A scan  *)
(* returns [ok, val, next]: next is the position after what was read.      *)
(***************************************************************************)
Digits == <<"0","1","2","3","4","5","6","7","8","9">>

IsDigit(c) == \E i \in 1..Len(Digits) : Digits[i] = c

DigitVal(c) == (CHOOSE i \in 1..Len(Digits) : Digits[i] = c) - 1

ScanFail == [ok |-> FALSE, val |-> JNull, next |-> 0]

ScanOk(v, n) == [ok |-> TRUE, val |-> v, next |-> n]

RECURSIVE SkipWs(_, _)
SkipWs(s, i) == IF i <= Len(s) /\ IsSpace(s[i]) THEN SkipWs(s, i + 1) ELSE i

At(s, i, c) == i <= Len(s) /\ s[i] = c

RECURSIVE ScanDigits(_, _, _)
ScanDigits(s, i, acc) ==
  IF i <= Len(s) /\ IsDigit(s[i])
  THEN ScanDigits(s, i + 1, acc * 10 + DigitVal(s[i]))
  ELSE ScanOk(JNum(acc), i)

\* -?(0|[1-9][0-9]*)
ScanNumber(s, i) ==
  LET neg == At(s, i, "-")
      j == IF neg THEN i + 1 ELSE i
  IN IF ~(j <= Len(s) /\ IsDigit(s[j])) THEN ScanFail
     ELSE LET d == IF s[j] = "0" THEN ScanOk(JNum(0), j + 1) ELSE ScanDigits(s, j, 0)
          IN ScanOk(JNum(IF neg THEN 0 - d.val.v ELSE d.val.v), d.next)

RECURSIVE ScanStringEnd(_, _)
ScanStringEnd(s, i) ==
  IF i > Len(s) \/ s[i] = "\\" THEN 0
  ELSE IF s[i] = "\"" THEN i
  ELSE ScanStringEnd(s, i + 1)

\* s[i] is the opening quote
ScanString(s, i) ==
  LET e == ScanStringEnd(s, i + 1)
  IN IF e = 0 THEN ScanFail ELSE ScanOk(JStr(SubSeq(s, i + 1, e - 1)), e + 1)

ScanWord(s, i, w, v) ==
  IF SubSeq(s, i, i + Len(w) - 1) = w THEN ScanOk(v, i + Len(w)) ELSE ScanFail

RECURSIVE ScanValue(_, _)
RECURSIVE ScanElems(_, _, _)
RECURSIVE ScanMembers(_, _, _)

ScanElems(s, i, acc) ==
  LET e == ScanValue(s, i)
      j == SkipWs(s, e.next)
  IN IF ~e.ok THEN ScanFail
     ELSE IF At(s, j, ",") THEN ScanElems(s, SkipWs(s, j + 1), Append(acc, e.val))
     ELSE IF At(s, j, "]") THEN ScanOk(JArr(Append(acc, e.val)), j + 1)
     ELSE ScanFail

ScanMembers(s, i, acc) ==
  LET key == ScanString(s, i)
      c == SkipWs(s, key.next)
      e == ScanValue(s, SkipWs(s, c + 1))
      j == SkipWs(s, e.next)
      es == DictSet(acc, key.val.v, e.val)
  IN IF ~At(s, i, "\"") THEN ScanFail
     ELSE IF ~key.ok THEN ScanFail
     ELSE IF ~At(s, c, ":") THEN ScanFail
     ELSE IF ~e.ok THEN ScanFail
     ELSE IF At(s, j, ",") THEN ScanMembers(s, SkipWs(s, j + 1), es)
     ELSE IF At(s, j, "}") THEN ScanOk(JObj(es), j + 1)
     ELSE ScanFail

ScanValue(s, i) ==
  IF i > Len(s) THEN ScanFail
  ELSE IF s[i] = "{" THEN
    LET j == SkipWs(s, i + 1)
    IN IF At(s, j, "}") THEN ScanOk(JObj(<<>>), j + 1) ELSE ScanMembers(s, j, <<>>)
  ELSE IF s[i] = "[" THEN
    LET j == SkipWs(s, i + 1)
    IN IF At(s, j, "]") THEN ScanOk(JArr(<<>>), j + 1) ELSE ScanElems(s, j, <<>>)
  ELSE IF s[i] = "\"" THEN ScanString(s, i)
  ELSE IF s[i] = "n" THEN ScanWord(s, i, <<"n","u","l","l">>, JNull)
  ELSE IF s[i] = "t" THEN ScanWord(s, i, <<"t","r","u","e">>, JBool(TRUE))
  ELSE IF s[i] = "f" THEN ScanWord(s, i, <<"f","a","l","s","e">>, JBool(FALSE))
  ELSE ScanNumber(s, i)

\* json.loads(s): the value, or JSONDecodeError (also on trailing text)
json_loads(s) ==
  LET r == ScanValue(s, SkipWs(s, 1))
  IN IF r.ok /\ SkipWs(s, r.next) = Len(s) + 1
     THEN Ret(r.val)
     ELSE Raise("JSONDecodeError")

(***************************************************************************)
(* json.dumps with the default separators ", " and ": ".                   *)
(***************************************************************************)
RECURSIVE NatChars(_)
NatChars(n) ==
  IF n < 10 THEN <<Digits[n + 1]>> ELSE NatChars(n \div 10) \o <<Digits[(n % 10) + 1]>>

IntChars(n) == IF n < 0 THEN <<"-">> \o NatChars(0 - n) ELSE NatChars(n)

RECURSIVE json_dumps(_)
RECURSIVE DumpElems(_, _)
RECURSIVE DumpMembers(_, _)

DumpElems(xs, i) ==
  IF i > Len(xs) THEN <<>>
  ELSE (IF i > 1 THEN <<",", " ">> ELSE <<>>) \o json_dumps(xs[i]) \o DumpElems(xs, i + 1)

DumpMembers(es, i) ==
  IF i > Len(es) THEN <<>>
  ELSE (IF i > 1 THEN <<",", " ">> ELSE <<>>)
       \o <<"\"">> \o es[i].k \o <<"\"", ":", " ">> \o json_dumps(es[i].v)
       \o DumpMembers(es, i + 1)

json_dumps(v) ==
  CASE v.t = "num" -> IntChars(v.v)
    [] v.t = "str" -> <<"\"">> \o v.v \o <<"\"">>
    [] v.t = "null" -> <<"n","u","l","l">>
    [] v.t = "bool" -> IF v.v THEN <<"t","r","u","e">> ELSE <<"f","a","l","s","e">>
    [] v.t = "arr" -> <<"[">> \o DumpElems(v.v, 1) \o <<"]">>
    [] v.t = "obj" -> <<"{">> \o DumpMembers(v.v, 1) \o <<"}">>

(***************************************************************************)
(* GeometryFormat                                                          *)
(***************************************************************************)
WKT == "WKT"

WKB == "WKB"

EWKT == "EWKT"

EWKB == "EWKB"

GEOJSON == "GeoJSON"

JSON == "JSON"

KML == "KML"

EARTH_ENGINE == "Earth Engine"

TOPOJSON == "TopoJSON"

XY == "X-Y Coordinates"

UNKNOWN == "Unknown"

all_formats == <<WKT, WKB, EWKT, EWKB, GEOJSON, KML, EARTH_ENGINE, TOPOJSON, XY>>

(***************************************************************************)
(* GeometryParser.detect_format                                            *)
(***************************************************************************)
kType == <<"t","y","p","e">>

kCoordinates == <<"c","o","o","r","d","i","n","a","t","e","s">>

kGeometries == <<"g","e","o","m","e","t","r","i","e","s">>

kArcs == <<"a","r","c","s">>

kObjects == <<"o","b","j","e","c","t","s">>

wkt_types ==
  << <<"P","O","I","N","T">>,
     <<"L","I","N","E","S","T","R","I","N","G">>,
     <<"P","O","L","Y","G","O","N">>,
     <<"M","U","L","T","I","P","O","I","N","T">>,
     <<"M","U","L","T","I","L","I","N","E","S","T","R","I","N","G">>,
     <<"M","U","L","T","I","P","O","L","Y","G","O","N">>,
     <<"G","E","O","M","E","T","R","Y","C","O","L","L","E","C","T","I","O","N">>,
     <<"C","I","R","C","U","L","A","R","S","T","R","I","N","G">>,
     <<"C","O","M","P","O","U","N","D","C","U","R","V","E">>,
     <<"C","U","R","V","E","P","O","L","Y","G","O","N">>,
     <<"M","U","L","T","I","C","U","R","V","E">>,
     <<"M","U","L","T","I","S","U","R","F","A","C","E">>,
     <<"T","R","I","A","N","G","L","E">>,
     <<"T","I","N">>,
     <<"P","O","L","Y","H","E","D","R","A","L","S","U","R","F","A","C","E">> >>

kml_elements ==
  << <<"<","p","o","i","n","t">>,
     <<"<","l","i","n","e","s","t","r","i","n","g">>,
     <<"<","p","o","l","y","g","o","n">>,
     <<"<","m","u","l","t","i","g","e","o","m","e","t","r","y">>,
     <<"<","l","i","n","e","a","r","r","i","n","g">>,
     <<"<","c","o","o","r","d","i","n","a","t","e","s">> >>

HexChars == <<"0","1","2","3","4","5","6","7","8","9","A","B","C","D","E","F","a","b","c","d","e","f">>

IsHexChar(c) == \E i \in 1..Len(HexChars) : HexChars[i] = c

\* the value of one hexadecimal digit
HexVal(c) ==
  LET i == CHOOSE j \in 1..Len(HexChars) : HexChars[j] = c
  IN IF i <= 16 THEN i - 1 ELSE i - 7

\* no rule of a step matched: detection goes on with the next step
NoMatch == ""

\* the guard without its isinstance test
detect_guard_truthy_only(sample) == ~Truthy(sample)

\* if not sample or not isinstance(sample, str)
detect_guard(sample) == ~Truthy(sample) \/ ~IsStr(sample)

\* the follow-character test left out
wkt_follow_any(rest) == TRUE

\* if not rest or rest[0] in ' (ZM'
wkt_follow(rest) == rest = <<>> \/ rest[1] \in {" ", "(", "Z", "M"}

detect_wkt(upper_sample) ==
  IF \E i \in 1..Len(wkt_types) :
       /\ startswith(upper_sample, wkt_types[i])
       /\ wkt_follow(SliceFrom(upper_sample, Len(wkt_types[i])))
  THEN WKT
  ELSE NoMatch

\* the key rules applied to a parsed dict
detect_json_keys(parsed) ==
  IF HasKey(parsed, kType) /\ (HasKey(parsed, kCoordinates) \/ HasKey(parsed, kGeometries))
  THEN GEOJSON
  ELSE IF HasKey(parsed, kArcs) \/ HasKey(parsed, kObjects) THEN TOPOJSON
  ELSE NoMatch

\* a JSON step that answers Unknown at once when the parse fails
detect_json_except_unknown(e) == Ret(UNKNOWN)

\* what the except clause of the JSON step lets through
detect_json_except(e) == IF e = "JSONDecodeError" THEN Ret(NoMatch) ELSE Raise(e)

detect_json(sample) ==
  IF ~startswith(sample, <<"{">>) THEN Ret(NoMatch)
  ELSE LET parsed == json_loads(sample)
       IN IF parsed.k = "raise" THEN detect_json_except(parsed.e)
          ELSE IF parsed.v.t = "obj" THEN Ret(detect_json_keys(parsed.v))
          ELSE Ret(NoMatch)

detect_kml(sample) ==
  IF startswith(sample, <<"<">>) \/ contains(lower(sample), kml_elements[6])
  THEN LET lower_sample == lower(sample)
       IN IF \E i \in 1..Len(kml_elements) : contains(lower_sample, kml_elements[i])
          THEN KML
          ELSE NoMatch
  ELSE NoMatch

detect_ee(sample) ==
  IF startswith(sample, <<"e","e",".","G","e","o","m","e","t","r","y">>)
  THEN EARTH_ENGINE
  ELSE NoMatch

\* int(pair, 16) for a pair of hexadecimal digits
HexByte(pair) == HexVal(pair[1]) * 16 + HexVal(pair[2])

\* the type word read without the byte swap
type_int_no_swap(sample) ==
  LET type_bytes == Slice(sample, 2, 10)
  IN [i \in 1..4 |-> HexByte(SubSeq(type_bytes, 2 * i - 1, 2 * i))]

\* int(type_bytes, 16) as its four bytes, most significant first; the bytes are
\* reversed when the byte-order pair is 01
type_int(sample) ==
  LET type_bytes == Slice(sample, 2, 10)
      bytes == [i \in 1..4 |-> HexByte(SubSeq(type_bytes, 2 * i - 1, 2 * i))]
  IN IF lower(Slice(sample, 0, 2)) = <<"0","1">>
     THEN [i \in 1..4 |-> bytes[5 - i]]
     ELSE bytes

\* word & 0x20000000: bit 0x20 of the most significant byte
srid_flag(word) == (word[1] \div 32) % 2 = 1

detect_hex(sample) ==
  IF Len(sample) >= 2 /\ Len(sample) % 2 = 0
  THEN IF \A i \in 1..Len(sample) : IsHexChar(sample[i])
       THEN IF Len(sample) >= 10 /\ srid_flag(type_int(sample)) THEN EWKB ELSE WKB
       ELSE NoMatch
  ELSE NoMatch

detect_body(v) ==
  IF ~IsStr(v) THEN Raise("AttributeError")
  ELSE LET sample == strip(v.s)
           js == detect_json(sample)
       IN IF sample = <<>> THEN Ret(UNKNOWN)
          ELSE IF startswith(upper(sample), <<"S","R","I","D","=">>) THEN Ret(EWKT)
          ELSE IF detect_wkt(upper(sample)) /= NoMatch THEN Ret(WKT)
          ELSE IF js.k = "raise" THEN js
          ELSE IF js.v /= NoMatch THEN js
          ELSE IF detect_kml(sample) /= NoMatch THEN Ret(KML)
          ELSE IF detect_ee(sample) /= NoMatch THEN Ret(EARTH_ENGINE)
          ELSE IF detect_hex(sample) /= NoMatch THEN Ret(detect_hex(sample))
          ELSE Ret(UNKNOWN)

detect_format(sample) ==
  IF detect_guard(sample) THEN Ret(UNKNOWN) ELSE detect_body(sample)

(***************************************************************************)
(* Python operations on the values json.loads returns.  Each gives the     *)
(* value or the exception Python raises for an operand of the wrong type.  *)
(***************************************************************************)
IsRaise(r) == r.k = "raise"

\* len(v)
PyLen(v) ==
  IF v.t \in {"arr", "str", "obj"} THEN Ret(Len(v.v)) ELSE Raise("TypeError")

\* the items "for c in v" visits: of a list its elements, of a str its
\* characters, of a dict its keys
PyItems(v) ==
  CASE v.t = "arr" -> Ret(v.v)
    [] v.t = "str" -> Ret([i \in 1..Len(v.v) |-> JStr(<<v.v[i]>>)])
    [] v.t = "obj" -> Ret([i \in 1..Len(v.v) |-> JStr(v.v[i].k)])
    [] OTHER -> Raise("TypeError")

\* v[i] for an integer i >= 0
PyIndex(v, i) ==
  CASE v.t = "arr" -> IF i < Len(v.v) THEN Ret(v.v[i + 1]) ELSE Raise("IndexError")
    [] v.t = "str" -> IF i < Len(v.v) THEN Ret(JStr(<<v.v[i + 1]>>)) ELSE Raise("IndexError")
    [] v.t = "obj" -> Raise("KeyError")
    [] OTHER -> Raise("TypeError")

\* v.get(k, dflt): only a dict has get
PyGet(v, k, dflt) ==
  IF v.t = "obj" THEN Ret(DictGet(v, k, dflt)) ELSE Raise("AttributeError")

\* v.lower(): only a str has lower
PyLower(v) == IF v.t = "str" THEN Ret(lower(v.v)) ELSE Raise("AttributeError")

\* bool(v) of a JSON value
JTruthy(v) ==
  CASE v.t = "null" -> FALSE
    [] v.t = "bool" -> v.v
    [] v.t = "num" -> v.v /= 0
    [] OTHER -> v.v /= <<>>

(***************************************************************************)
(* Geometries.  QgsPointXY(x, y) is the pair <<x, y>>.  Each kind has its  *)
(* own field, so geometries of different kinds compare unequal.            *)
(***************************************************************************)
\* QgsPointXY(a, b) takes numbers only
QgsPointXY(a, b) ==
  IF a.t = "num" /\ b.t = "num" THEN Ret(<<a.v, b.v>>) ELSE Raise("TypeError")

fromPointXY(p) == [kind |-> "Point", xy |-> p]

fromMultiPointXY(ps) == [kind |-> "MultiPoint", mpoints |-> ps]

fromPolylineXY(ps) == [kind |-> "LineString", points |-> ps]

fromMultiPolylineXY(ls) == [kind |-> "MultiLineString", lines |-> ls]

fromPolygonXY(rs) == [kind |-> "Polygon", rings |-> rs]

fromMultiPolygonXY(ps) == [kind |-> "MultiPolygon", polygons |-> ps]

\* the geometries a geometry is the union of
Parts(g) == IF g.kind = "Combined" THEN g.parts ELSE {g}

\* a.combine(b): the geometric union, kept as the set of the geometries united
combine(a, b) == [kind |-> "Combined", parts |-> Parts(a) \cup Parts(b)]

IsGeom(v) == "kind" \in DOMAIN v

IsNone(v) == ~IsGeom(v)

(***************************************************************************)
(* The coordinate loops shared by the JSON-based decoders.                  *)
(***************************************************************************)
\* QgsPointXY(c[0], c[1])
point_of(c) ==
  LET a == PyIndex(c, 0)
      b == PyIndex(c, 1)
  IN IF IsRaise(a) THEN a ELSE IF IsRaise(b) THEN b ELSE QgsPointXY(a.v, b.v)

\* the filter of the comprehensions: if len(c) >= 2
point_kept(n) == n >= 2

RECURSIVE points_loop(_, _, _)
points_loop(items, i, acc) ==
  IF i > Len(items) THEN Ret(acc)
  ELSE LET n == PyLen(items[i])
           p == point_of(items[i])
       IN IF IsRaise(n) THEN n
          ELSE IF ~point_kept(n.v) THEN points_loop(items, i + 1, acc)
          ELSE IF IsRaise(p) THEN p
          ELSE points_loop(items, i + 1, Append(acc, p.v))

\* [QgsPointXY(c[0], c[1]) for c in coords if len(c) >= 2]
point_list(coords) ==
  LET items == PyItems(coords)
  IN IF IsRaise(items) THEN items ELSE points_loop(items.v, 1, <<>>)

\* a line kept with one point
line_kept_one(points) == Len(points) >= 1

\* if len(points) >= 2: lines.append(points)
line_kept(points) == Len(points) >= 2

\* a ring kept with two points
ring_kept_two(points) == Len(points) >= 2

\* if len(points) >= 3: rings.append(points)
ring_kept(points) == Len(points) >= 3

RECURSIVE lines_loop(_, _, _)
lines_loop(items, i, acc) ==
  IF i > Len(items) THEN Ret(acc)
  ELSE LET points == point_list(items[i])
       IN IF IsRaise(points) THEN points
          ELSE lines_loop(items, i + 1,
                          IF line_kept(points.v) THEN Append(acc, points.v) ELSE acc)

\* for line in coords: ... lines.append(points)
line_list(coords) ==
  LET items == PyItems(coords)
  IN IF IsRaise(items) THEN items ELSE lines_loop(items.v, 1, <<>>)

RECURSIVE rings_loop(_, _, _)
rings_loop(items, i, acc) ==
  IF i > Len(items) THEN Ret(acc)
  ELSE LET points == point_list(items[i])
       IN IF IsRaise(points) THEN points
          ELSE rings_loop(items, i + 1,
                          IF ring_kept(points.v) THEN Append(acc, points.v) ELSE acc)

\* for ring in coords: ... rings.append(points)
ring_list(coords) ==
  LET items == PyItems(coords)
  IN IF IsRaise(items) THEN items ELSE rings_loop(items.v, 1, <<>>)

RECURSIVE polygons_loop(_, _, _)
polygons_loop(items, i, acc) ==
  IF i > Len(items) THEN Ret(acc)
  ELSE LET rings == ring_list(items[i])
       IN IF IsRaise(rings) THEN rings
          ELSE polygons_loop(items, i + 1,
                             IF rings.v /= <<>> THEN Append(acc, rings.v) ELSE acc)

\* for polygon in coords: ... polygons.append(rings)
polygon_list(coords) ==
  LET items == PyItems(coords)
  IN IF IsRaise(items) THEN items ELSE polygons_loop(items.v, 1, <<>>)

\* combined = geom_list[0]; for g in geom_list[1:]: combined = combined.combine(g)
\* a loop that keeps geom_list[0] and unites nothing
combine_all_first(geom_list, i, combined) == combined

RECURSIVE combine_all(_, _, _)
combine_all(geom_list, i, combined) ==
  IF i > Len(geom_list) THEN combined
  ELSE combine_all(geom_list, i + 1, combine(combined, geom_list[i]))

\* the lower-cased kind words the decoders dispatch on
tPoint == <<"p","o","i","n","t">>

tMultiPoint == <<"m","u","l","t","i","p","o","i","n","t">>

tLineString == <<"l","i","n","e","s","t","r","i","n","g">>

tMultiLineString == <<"m","u","l","t","i","l","i","n","e","s","t","r","i","n","g">>

tPolygon == <<"p","o","l","y","g","o","n">>

tMultiPolygon == <<"m","u","l","t","i","p","o","l","y","g","o","n">>

tGeometryCollection == <<"g","e","o","m","e","t","r","y","c","o","l","l","e","c","t","i","o","n">>

tLinearRing == <<"l","i","n","e","a","r","r","i","n","g">>

tRectangle == <<"r","e","c","t","a","n","g","l","e">>

tBBox == <<"b","b","o","x">>

(***************************************************************************)
(* GeometryParser._parse_geojson                                           *)
(***************************************************************************)
kFeature == <<"F","e","a","t","u","r","e">>

kGeometry == <<"g","e","o","m","e","t","r","y">>

\* the rest of a block, f, after a call that may have raised
Bind(r, f(_)) == IF IsRaise(r) THEN r ELSE f(r.v)

\* return v, where a loop or a lookup may have raised
OrNone(r, make(_), ok(_)) ==
  IF IsRaise(r) THEN r ELSE IF ok(r.v) THEN Ret(make(r.v)) ELSE Ret(PyNone)

NonEmpty(xs) == xs /= <<>>

\* if parsed: geom_list.append(parsed)
member_kept(parsed) == IsGeom(parsed)

RECURSIVE parse_geojson(_)
RECURSIVE geojson_members(_, _, _)

\* for g in geometries: parsed = _parse_geojson(json.dumps(g)); ...
geojson_members(items, i, geom_list) ==
  IF i > Len(items) THEN Ret(geom_list)
  ELSE LET parsed == parse_geojson(json_dumps(items[i]))
       IN IF IsRaise(parsed) THEN parsed
          ELSE geojson_members(items, i + 1,
                 IF member_kept(parsed.v) THEN Append(geom_list, parsed.v) ELSE geom_list)

geojson_collection(geojson) ==
  LET geometries == DictGet(geojson, kGeometries, JArr(<<>>))
      items == PyItems(geometries)
      geom_list == geojson_members(items.v, 1, <<>>)
  IN IF IsRaise(items) THEN items
     ELSE IF IsRaise(geom_list) THEN geom_list
     ELSE IF geom_list.v /= <<>>
     THEN Ret(combine_all(geom_list.v, 2, geom_list.v[1]))
     ELSE Ret(PyNone)

\* the dispatch on the lower-cased type
geojson_dispatch(geojson, geom_type, coords) ==
  CASE geom_type = tPoint ->
         LET n == PyLen(coords)
             p == point_of(coords)
         IN IF IsRaise(n) THEN n
            ELSE IF n.v >= 2
            THEN (IF IsRaise(p) THEN p ELSE Ret(fromPointXY(p.v)))
            ELSE Ret(PyNone)
    [] geom_type = tMultiPoint ->
         OrNone(point_list(coords), fromMultiPointXY, NonEmpty)
    [] geom_type = tLineString ->
         OrNone(point_list(coords), fromPolylineXY, line_kept)
    [] geom_type = tMultiLineString ->
         OrNone(line_list(coords), fromMultiPolylineXY, NonEmpty)
    [] geom_type = tPolygon ->
         OrNone(ring_list(coords), fromPolygonXY, NonEmpty)
    [] geom_type = tMultiPolygon ->
         OrNone(polygon_list(coords), fromMultiPolygonXY, NonEmpty)
    [] geom_type = tGeometryCollection ->
         geojson_collection(geojson)
    [] OTHER -> Ret(PyNone)

\* a body that never descends into the geometry member of a Feature
geojson_body_no_unwrap(doc) ==
  LET gt == PyGet(doc, kType, JStr(<<>>))
      geom_type == PyLower(gt.v)
      coords == DictGet(doc, kCoordinates, JArr(<<>>))
  IN IF IsRaise(gt) THEN gt
     ELSE IF IsRaise(geom_type) THEN geom_type
     ELSE geojson_dispatch(doc, geom_type.v, coords)

\* the body of the try block, from the parsed document on
geojson_body(doc) ==
  LET ty == PyGet(doc, kType, JNull)
      geojson == IF IsJStr(ty.v, kFeature) THEN DictGet(doc, kGeometry, JObj(<<>>)) ELSE doc
      gt == PyGet(geojson, kType, JStr(<<>>))
      geom_type == PyLower(gt.v)
      coords == DictGet(geojson, kCoordinates, JArr(<<>>))
  IN IF IsRaise(ty) THEN ty
     ELSE IF IsRaise(gt) THEN gt
     ELSE IF IsRaise(geom_type) THEN geom_type
     ELSE geojson_dispatch(geojson, geom_type.v, coords)

\* the try block once json.loads has returned or raised
geojson_loaded(geojson) == IF IsRaise(geojson) THEN geojson ELSE geojson_body(geojson.v)

\* the body of the try block
geojson_try(value) == geojson_loaded(json_loads(value))

\* except json.JSONDecodeError
geojson_except(r) == IF IsRaise(r) /\ r.e = "JSONDecodeError" THEN Ret(PyNone) ELSE r

parse_geojson(value) == geojson_except(geojson_try(value))

(***************************************************************************)
(* The WKT and WKB readers of the geometry library, as tables of the texts *)
(* the model uses: a text outside a table reads as the null geometry.      *)
(***************************************************************************)
NullGeometry == [kind |-> "Null"]

EmptyGeometry == [kind |-> "Empty"]

WktTable ==
  << [text |-> <<"P","O","I","N","T","(","1"," ","2",")">>,
      geom |-> fromPointXY(<<1, 2>>)],
     [text |-> <<"L","I","N","E","S","T","R","I","N","G","(","0"," ","0",","," ","1"," ","1",")">>,
      geom |-> fromPolylineXY(<< <<0, 0>>, <<1, 1>> >>)],
     [text |-> <<"P","O","I","N","T"," ","E","M","P","T","Y">>,
      geom |-> EmptyGeometry] >>

\* QgsGeometry.fromWkt(value): the text is trimmed and its keyword read in any case
fromWkt(value) ==
  LET t == upper(strip(value))
  IN IF \E i \in 1..Len(WktTable) : WktTable[i].text = t
     THEN WktTable[CHOOSE i \in 1..Len(WktTable) : WktTable[i].text = t].geom
     ELSE NullGeometry

WkbTable ==
  << [hex |-> <<"0","1","0","1","0","0","0","0","0","0","0","0","0","0","0","0","0","0","0","0","0","0","F","0","3","F","0","0","0","0","0","0","0","0","0","0","0","0","0","0","4","0">>,
      geom |-> fromPointXY(<<1, 2>>)] >>

\* binascii.unhexlify(value): the bytes, written as upper-case hex pairs
unhexlify(value) ==
  IF Len(value) % 2 = 0 /\ \A i \in 1..Len(value) : IsHexChar(value[i])
  THEN Ret(upper(value))
  ELSE Raise("binascii.Error")

\* geom.fromWkb(wkb_bytes)
fromWkb(wkb_bytes) ==
  IF \E i \in 1..Len(WkbTable) : WkbTable[i].hex = wkb_bytes
  THEN WkbTable[CHOOSE i \in 1..Len(WkbTable) : WkbTable[i].hex = wkb_bytes].geom
  ELSE NullGeometry

\* geom.isNull() or geom.isEmpty()
isNullOrEmpty(geom) == geom.kind \in {"Null", "Empty"}

(***************************************************************************)
(* GeometryParser._parse_wkt, _parse_wkb, _parse_ewkt, _parse_ewkb         *)
(***************************************************************************)
parse_wkt(value) ==
  LET geom == fromWkt(value)
  IN IF isNullOrEmpty(geom) THEN Ret(PyNone) ELSE Ret(geom)

parse_wkb(value) ==
  LET wkb_bytes == unhexlify(value)
      geom == fromWkb(wkb_bytes.v)
  IN IF IsRaise(wkb_bytes) THEN Ret(PyNone)
     ELSE IF isNullOrEmpty(geom) THEN Ret(PyNone)
     ELSE Ret(geom)

RECURSIVE DigitsEnd(_, _)
DigitsEnd(s, i) == IF i <= Len(s) /\ IsDigit(s[i]) THEN DigitsEnd(s, i + 1) ELSE i

RECURSIVE LineEnd(_, _)
LineEnd(s, i) == IF i <= Len(s) /\ s[i] /= "\n" THEN LineEnd(s, i + 1) ELSE i

\* re.match(r'SRID=(\d+);(.+)', value, re.IGNORECASE): "." matches no newline
ewkt_match(value) ==
  LET d == DigitsEnd(value, 6)
      e == LineEnd(value, d + 1)
  IN IF /\ startswith(upper(value), <<"S","R","I","D","=">>)
        /\ d > 6
        /\ At(value, d, ";")
        /\ e > d + 1
     THEN [ok |-> TRUE, srid |-> SubSeq(value, 6, d - 1), wkt_part |-> SubSeq(value, d + 1, e - 1)]
     ELSE [ok |-> FALSE, srid |-> <<>>, wkt_part |-> <<>>]

parse_ewkt(value) ==
  LET match == ewkt_match(value)
  IN IF match.ok THEN parse_wkt(match.wkt_part) ELSE Ret(PyNone)

parse_ewkb(value) ==
  LET wkb_bytes == unhexlify(value)
      geom == fromWkb(wkb_bytes.v)
  IN IF IsRaise(wkb_bytes) THEN Ret(PyNone)
     ELSE IF isNullOrEmpty(geom) THEN Ret(PyNone)
     ELSE Ret(geom)

(***************************************************************************)
(* GeometryParser._parse_earth_engine                                      *)
(***************************************************************************)
IsWordChar(c) ==
  \/ \E i \in 1..Len(LowerLetters) : LowerLetters[i] = c \/ UpperLetters[i] = c
  \/ IsDigit(c)
  \/ c = "_"

RECURSIVE WordEnd(_, _)
WordEnd(s, i) == IF i <= Len(s) /\ IsWordChar(s[i]) THEN WordEnd(s, i + 1) ELSE i

eePrefix == <<"e","e",".","G","e","o","m","e","t","r","y",".">>

\* re.match(r'ee\.Geometry\.(\w+)\s*\(\s*(\[.+\])\s*\)', value, re.DOTALL): the
\* greedy ".+" ends at the last "]" that only white space parts from a ")"
ee_match(value) ==
  LET w == WordEnd(value, Len(eePrefix) + 1)
      a == SkipWs(value, w)
      b == SkipWs(value, a + 1)
      closers == {j \in (b + 2)..Len(value) :
                    value[j] = "]" /\ At(value, SkipWs(value, j + 1), ")")}
      last == CHOOSE j \in closers : \A k \in closers : k <= j
  IN IF /\ startswith(value, eePrefix)
        /\ w > Len(eePrefix) + 1
        /\ At(value, a, "(")
        /\ At(value, b, "[")
        /\ closers /= {}
     THEN [ok |-> TRUE, kind |-> SubSeq(value, Len(eePrefix) + 1, w - 1),
           coords_str |-> SubSeq(value, b, last)]
     ELSE [ok |-> FALSE, kind |-> <<>>, coords_str |-> <<>>]

RECURSIVE FindChar(_, _, _)
FindChar(s, i, c) ==
  IF i > Len(s) THEN 0 ELSE IF s[i] = c THEN i ELSE FindChar(s, i + 1, c)

\* re.search(r'\{[^}]+\}', value): the leftmost "{" with at least one character
\* before the next "}"; [open, close] or <<>>
RECURSIVE brace_search(_, _)
brace_search(value, from) ==
  LET open == FindChar(value, from, "{")
      close == FindChar(value, open + 1, "}")
  IN IF open = 0 \/ close = 0 THEN <<>>
     ELSE IF close > open + 1 THEN <<open, close>>
     ELSE brace_search(value, open + 1)

\* the branch taken when the pattern does not match
ee_fallback(value) ==
  LET json_match == brace_search(value, 1)
  IN IF contains(value, <<"{">>) /\ contains(value, kCoordinates) /\ json_match /= <<>>
     THEN parse_geojson(SubSeq(value, json_match[1], json_match[2]))
     ELSE Ret(PyNone)

\* isinstance(v, list)
IsList(v) == v.t = "arr"

ee_polygon(coords) ==
  IF coords.v /= <<>> /\ IsList(coords.v[1])
  THEN IF coords.v[1].v /= <<>> /\ IsList(coords.v[1].v[1])
       THEN OrNone(ring_list(coords), fromPolygonXY, NonEmpty)
       ELSE LET points == point_list(coords)
            IN IF IsRaise(points) THEN points
               ELSE IF ring_kept(points.v) THEN Ret(fromPolygonXY(<<points.v>>))
               ELSE Ret(PyNone)
  ELSE Ret(PyNone)

\* if len(coords) >= 4
rectangle_guard(coords) == Len(coords.v) >= 4

ee_rectangle(coords) ==
  IF rectangle_guard(coords)
  THEN LET west == coords.v[1]
           south == coords.v[2]
           east == coords.v[3]
           north == coords.v[4]
           sw == QgsPointXY(west, south)
           se == QgsPointXY(east, south)
           ne == QgsPointXY(east, north)
           nw == QgsPointXY(west, north)
       IN IF IsRaise(sw) THEN sw
          ELSE IF IsRaise(se) THEN se
          ELSE IF IsRaise(ne) THEN ne
          ELSE IF IsRaise(nw) THEN nw
          ELSE Ret(fromPolygonXY(<< <<sw.v, se.v, ne.v, nw.v, sw.v>> >>))
  ELSE Ret(PyNone)

\* the dispatch on the lower-cased kind; coords is the list json.loads returned
ee_dispatch(geom_type, coords) ==
  CASE geom_type = tPoint ->
         LET p == point_of(coords)
         IN IF Len(coords.v) >= 2
            THEN (IF IsRaise(p) THEN p ELSE Ret(fromPointXY(p.v)))
            ELSE Ret(PyNone)
    [] geom_type = tMultiPoint -> OrNone(point_list(coords), fromMultiPointXY, NonEmpty)
    [] geom_type = tLineString -> OrNone(point_list(coords), fromPolylineXY, line_kept)
    [] geom_type = tLinearRing ->
         LET points == point_list(coords)
         IN IF IsRaise(points) THEN points
            ELSE IF ring_kept(points.v) THEN Ret(fromPolygonXY(<<points.v>>))
            ELSE Ret(PyNone)
    [] geom_type = tPolygon -> ee_polygon(coords)
    [] geom_type = tMultiPolygon -> OrNone(polygon_list(coords), fromMultiPolygonXY, NonEmpty)
    [] geom_type \in {tRectangle, tBBox} -> ee_rectangle(coords)
    [] OTHER -> Ret(PyNone)

\* except (json.JSONDecodeError, ValueError, IndexError)
ee_except(r) ==
  IF IsRaise(r) /\ r.e \in {"JSONDecodeError", "ValueError", "IndexError"}
  THEN Ret(PyNone)
  ELSE r

\* from `coords = json.loads(coords_str)` on
ee_loaded(geom_type, coords) ==
  IF IsRaise(coords) THEN coords ELSE ee_dispatch(geom_type, coords.v)

\* from `if not match` on
ee_matched(value, match) ==
  IF ~match.ok THEN ee_fallback(value)
  ELSE ee_loaded(lower(match.kind), json_loads(match.coords_str))

\* the body of the try block
ee_try(value) == ee_matched(value, ee_match(strip(value)))

parse_earth_engine(value) == ee_except(ee_try(value))

(***************************************************************************)
(* GeometryParser._resolve_arcs                                            *)
(***************************************************************************)
\* isinstance(v, int)
IsInt(v) == v.t = "num"

\* arc_idx = ref if ref >= 0 else ~ref
arc_index(ref) == IF ref >= 0 THEN ref ELSE (0 - ref) - 1

\* 0 <= arc_idx < len(arcs)
arc_in_range(arc_idx, n) == 0 <= arc_idx /\ arc_idx < n

\* the delta decoding: x += point[0]; y += point[1]; decoded.append([x, y])
RECURSIVE decode_arc(_, _, _, _, _)
decode_arc(arc_coords, i, x, y, decoded) ==
  IF i > Len(arc_coords) THEN Ret(decoded)
  ELSE LET point == arc_coords[i]
           n == PyLen(point)
           dx == PyIndex(point, 0)
           dy == PyIndex(point, 1)
       IN IF IsRaise(n) THEN n
          ELSE IF n.v < 2 THEN decode_arc(arc_coords, i + 1, x, y, decoded)
          ELSE IF IsRaise(dx) THEN dx
          ELSE IF ~IsInt(dx.v) THEN Raise("TypeError")
          ELSE IF IsRaise(dy) THEN dy
          ELSE IF ~IsInt(dy.v) THEN Raise("TypeError")
          ELSE decode_arc(arc_coords, i + 1, x + dx.v.v, y + dy.v.v,
                          Append(decoded, <<x + dx.v.v, y + dy.v.v>>))

\* decoded[::-1]
Reverse(xs) == [i \in 1..Len(xs) |-> xs[Len(xs) + 1 - i]]

\* a concatenation that keeps both copies of a junction point
junction_keep(coords, decoded) == decoded

\* if coords and decoded and coords[-1] == decoded[0]: decoded = decoded[1:]
junction(coords, decoded) ==
  IF coords /= <<>> /\ decoded /= <<>> /\ coords[Len(coords)] = decoded[1]
  THEN Tail(decoded)
  ELSE decoded

\* a decoding that reverses the deltas of a negative reference before summing
arc_points_deltas_reversed(ref, arc) ==
  IF arc.t \notin {"arr", "str"} THEN Raise("TypeError")
  ELSE decode_arc(IF ref < 0 THEN Reverse(PyItems(arc).v) ELSE PyItems(arc).v,
                  1, 0, 0, <<>>)

\* arc_coords = arcs[arc_idx][:] decoded, reversed for a negative reference
arc_points(ref, arc) ==
  IF arc.t \notin {"arr", "str"} THEN Raise("TypeError")
  ELSE Bind(decode_arc(PyItems(arc).v, 1, 0, 0, <<>>),
            LAMBDA decoded : Ret(IF ref < 0 THEN Reverse(decoded) ELSE decoded))

\* for ref in ref_group: ...
RECURSIVE refs_loop(_, _, _, _)
refs_loop(ref_group, i, arcs, coords) ==
  IF i > Len(ref_group) THEN Ret(coords)
  ELSE LET ref == ref_group[i]
           n == PyLen(arcs)
       IN IF ~IsInt(ref) THEN refs_loop(ref_group, i + 1, arcs, coords)
          ELSE IF IsRaise(n) THEN n
          ELSE IF ~arc_in_range(arc_index(ref.v), n.v)
          THEN refs_loop(ref_group, i + 1, arcs, coords)
          ELSE Bind(PyIndex(arcs, arc_index(ref.v)), LAMBDA arc :
               Bind(arc_points(ref.v, arc), LAMBDA decoded :
               refs_loop(ref_group, i + 1, arcs, coords \o junction(coords, decoded))))

\* for ref_group in arc_refs: ...
RECURSIVE groups_loop(_, _, _, _)
groups_loop(arc_refs, i, arcs, resolved) ==
  IF i > Len(arc_refs) THEN Ret(resolved)
  ELSE LET g == arc_refs[i]
           ref_group == IF IsInt(g) THEN <<g>> ELSE g.v
       IN IF ~IsInt(g) /\ ~IsList(g) THEN groups_loop(arc_refs, i + 1, arcs, resolved)
          ELSE Bind(refs_loop(ref_group, 1, arcs, <<>>), LAMBDA coords :
               groups_loop(arc_refs, i + 1, arcs,
                 IF coords /= <<>> THEN Append(resolved, coords) ELSE resolved))

\* a resolved line as the list of [x, y] lists the code builds
AsLists(coords) == JArr([i \in 1..Len(coords) |-> JArr(<<JNum(coords[i][1]), JNum(coords[i][2])>>)])

\* _resolve_arcs(arc_refs, arcs): the list of resolved coordinate lists
resolve_arcs(arc_refs, arcs) ==
  Bind(PyItems(arc_refs), LAMBDA items :
  Bind(groups_loop(items, 1, arcs, <<>>), LAMBDA resolved :
  Ret(JArr([i \in 1..Len(resolved) |-> AsLists(resolved[i])]))))

(***************************************************************************)
(* GeometryParser._resolve_topojson_geometry and _parse_topojson           *)
(***************************************************************************)
\* for poly_arcs in arc_indices: poly_coords = _resolve_arcs(poly_arcs, arcs) ...
RECURSIVE topo_polygons_loop(_, _, _, _)
topo_polygons_loop(arc_indices, i, arcs, polygons) ==
  IF i > Len(arc_indices) THEN Ret(polygons)
  ELSE Bind(resolve_arcs(arc_indices[i], arcs), LAMBDA poly_coords :
       Bind(ring_list(poly_coords), LAMBDA rings :
       topo_polygons_loop(arc_indices, i + 1, arcs,
         IF rings /= <<>> THEN Append(polygons, rings) ELSE polygons)))

\* the branch of the four kinds that refer to arcs
topo_arcs_geometry(obj, geom_type, arcs) ==
  LET arc_indices == DictGet(obj, kArcs, JArr(<<>>))
  IN Bind(resolve_arcs(arc_indices, arcs), LAMBDA resolved_coords :
       IF resolved_coords.v = <<>> THEN Ret(PyNone)
       ELSE CASE geom_type = tLineString ->
                   OrNone(point_list(resolved_coords.v[1]), fromPolylineXY, line_kept)
              [] geom_type = tMultiLineString ->
                   OrNone(line_list(resolved_coords), fromMultiPolylineXY, NonEmpty)
              [] geom_type = tPolygon ->
                   OrNone(ring_list(resolved_coords), fromPolygonXY, NonEmpty)
              [] geom_type = tMultiPolygon ->
                   OrNone(topo_polygons_loop(PyItems(arc_indices).v, 1, arcs, <<>>),
                          fromMultiPolygonXY, NonEmpty))

RECURSIVE resolve_topojson_geometry(_, _)
RECURSIVE topo_members(_, _, _, _)

\* for g in geometries: parsed = _resolve_topojson_geometry(g, arcs); ...
topo_members(items, i, arcs, geom_list) ==
  IF i > Len(items) THEN Ret(geom_list)
  ELSE LET parsed == resolve_topojson_geometry(items[i], arcs)
       IN IF IsRaise(parsed) THEN parsed
          ELSE topo_members(items, i + 1, arcs,
                 IF member_kept(parsed.v) THEN Append(geom_list, parsed.v) ELSE geom_list)

resolve_topojson_geometry(obj, arcs) ==
  LET gt == PyGet(obj, kType, JStr(<<>>))
      lowered == PyLower(gt.v)
      geom_type == lowered.v
      coords == DictGet(obj, kCoordinates, JArr(<<>>))
      n == PyLen(coords)
      p == point_of(coords)
      items == PyItems(DictGet(obj, kGeometries, JArr(<<>>)))
      geom_list == topo_members(items.v, 1, arcs, <<>>)
  IN IF IsRaise(gt) THEN gt
     ELSE IF IsRaise(lowered) THEN lowered
     ELSE CASE geom_type = tPoint ->
                 IF IsRaise(n) THEN n
                 ELSE IF n.v >= 2
                 THEN (IF IsRaise(p) THEN p ELSE Ret(fromPointXY(p.v)))
                 ELSE Ret(PyNone)
            [] geom_type = tMultiPoint ->
                 OrNone(point_list(coords), fromMultiPointXY, NonEmpty)
            [] geom_type \in {tLineString, tMultiLineString, tPolygon, tMultiPolygon} ->
                 topo_arcs_geometry(obj, geom_type, arcs)
            [] geom_type = tGeometryCollection ->
                 IF IsRaise(items) THEN items
                 ELSE IF IsRaise(geom_list) THEN geom_list
                 ELSE IF geom_list.v /= <<>>
                 THEN Ret(combine_all(geom_list.v, 2, geom_list.v[1]))
                 ELSE Ret(PyNone)
            [] OTHER -> Ret(PyNone)

\* k in v
PyIn(k, v) ==
  CASE v.t = "obj" -> Ret(HasKey(v, k))
    [] v.t = "arr" -> Ret(\E i \in 1..Len(v.v) : IsJStr(v.v[i], k))
    [] v.t = "str" -> Ret(contains(v.v, k))
    [] OTHER -> Raise("TypeError")

\* except (json.JSONDecodeError, ValueError)
topo_except(r) ==
  IF IsRaise(r) /\ r.e \in {"JSONDecodeError", "ValueError"} THEN Ret(PyNone) ELSE r

\* the body of the try block, from the parsed document on
topojson_body(value, topo) ==
  LET hasType == PyIn(kType, topo)
      hasCoords == PyIn(kCoordinates, topo)
      arcs == PyGet(topo, kArcs, JArr(<<>>))
      objects == DictGet(topo, kObjects, JObj(<<>>))
  IN IF IsRaise(hasType) THEN hasType
     ELSE IF hasType.v /\ hasCoords.v THEN parse_geojson(value)
     ELSE IF IsRaise(arcs) THEN arcs
     ELSE IF ~JTruthy(objects) THEN Ret(PyNone)
     ELSE IF objects.t /= "obj" THEN Raise("AttributeError")
     ELSE resolve_topojson_geometry(objects.v[1].v, arcs.v)

\* the body of the try block
topo_try(value) == Bind(json_loads(value), LAMBDA topo : topojson_body(value, topo))

parse_topojson(value) == topo_except(topo_try(value))

(***************************************************************************)
(* ET.fromstring: a reading of the XML the model uses (elements, character *)
(* data, attributes in double quotes, namespace declarations, an XML       *)
(* declaration).  An element is [tag, text, kids]; text <<>> is None.  A   *)
(* tag in a namespace is written {uri}name, as ElementTree writes it.      *)
(***************************************************************************)
XmlFail == [ok |-> FALSE, next |-> 0]

NoNamespaces == [default |-> <<>>, prefixes |-> <<>>]

RECURSIVE NameEnd(_, _)
NameEnd(s, i) ==
  IF i <= Len(s) /\ ~IsSpace(s[i]) /\ s[i] \notin {">", "/", "=", "<"}
  THEN NameEnd(s, i + 1)
  ELSE i

\* the namespaces in scope after an attribute name="value"
Declare(ns, name, value) ==
  IF name = <<"x","m","l","n","s">> THEN [ns EXCEPT !.default = value]
  ELSE IF startswith(name, <<"x","m","l","n","s",":">>)
  THEN [ns EXCEPT !.prefixes = <<[p |-> SliceFrom(name, 6), uri |-> value]>> \o @]
  ELSE ns

\* the attributes of an open tag, from position i: [ok, ns, next, closed]
RECURSIVE XmlAttrs(_, _, _)
XmlAttrs(s, i, ns) ==
  LET j == SkipWs(s, i)
      e == NameEnd(s, j)
      q == FindChar(s, e + 2, "\"")
  IN IF At(s, j, ">") THEN [ok |-> TRUE, ns |-> ns, next |-> j + 1, closed |-> FALSE]
     ELSE IF At(s, j, "/") /\ At(s, j + 1, ">")
     THEN [ok |-> TRUE, ns |-> ns, next |-> j + 2, closed |-> TRUE]
     ELSE IF j = i \/ e = j \/ ~At(s, e, "=") \/ ~At(s, e + 1, "\"") \/ q = 0
     THEN [ok |-> FALSE, ns |-> ns, next |-> 0, closed |-> FALSE]
     ELSE XmlAttrs(s, q + 1, Declare(ns, SubSeq(s, j, e - 1), SubSeq(s, e + 2, q - 1)))

\* the tag ElementTree gives a name under the namespaces in scope
Resolve(name, ns) ==
  LET c == FindChar(name, 1, ":")
      p == SubSeq(name, 1, c - 1)
      bound == \E i \in 1..Len(ns.prefixes) : ns.prefixes[i].p = p
      uri == ns.prefixes[CHOOSE i \in 1..Len(ns.prefixes) : ns.prefixes[i].p = p].uri
  IN IF c = 0
     THEN [ok |-> TRUE,
           tag |-> IF ns.default = <<>> THEN name ELSE <<"{">> \o ns.default \o <<"}">> \o name]
     ELSE IF bound THEN [ok |-> TRUE, tag |-> <<"{">> \o uri \o <<"}">> \o SliceFrom(name, c)]
     ELSE [ok |-> FALSE, tag |-> <<>>]

RECURSIVE XmlElem(_, _, _)
RECURSIVE XmlContent(_, _, _, _, _, _)

\* the content of an open element: its text, its children, its end tag
XmlContent(s, i, ns, name, text, kids) ==
  LET lt == FindChar(s, i, "<")
      chunk == SubSeq(s, i, lt - 1)
      e == NameEnd(s, lt + 2)
      kid == XmlElem(s, lt, ns)
  IN IF lt = 0 \/ contains(chunk, <<"&">>) THEN XmlFail
     ELSE IF At(s, lt + 1, "/")
     THEN IF SubSeq(s, lt + 2, e - 1) = name /\ At(s, SkipWs(s, e), ">")
          THEN [ok |-> TRUE, text |-> IF kids = <<>> THEN text \o chunk ELSE text,
                kids |-> kids, next |-> SkipWs(s, e) + 1]
          ELSE XmlFail
     ELSE IF ~kid.ok THEN XmlFail
     ELSE XmlContent(s, kid.next, ns, name,
                     IF kids = <<>> THEN text \o chunk ELSE text, Append(kids, kid.elem))

\* the element that starts at s[i] = "<"
XmlElem(s, i, ns) ==
  LET e == NameEnd(s, i + 1)
      name == SubSeq(s, i + 1, e - 1)
      attrs == XmlAttrs(s, e, ns)
      tag == Resolve(name, attrs.ns)
      body == XmlContent(s, attrs.next, attrs.ns, name, <<>>, <<>>)
  IN IF ~At(s, i, "<") \/ e = i + 1 \/ At(s, i + 1, "?") \/ At(s, i + 1, "!") THEN XmlFail
     ELSE IF ~attrs.ok \/ ~tag.ok THEN XmlFail
     ELSE IF attrs.closed
     THEN [ok |-> TRUE, elem |-> [tag |-> tag.tag, text |-> <<>>, kids |-> <<>>],
           next |-> attrs.next]
     ELSE IF ~body.ok THEN XmlFail
     ELSE [ok |-> TRUE, elem |-> [tag |-> tag.tag, text |-> body.text, kids |-> body.kids],
           next |-> body.next]

\* the position after an XML declaration at the start of the text
AfterDeclaration(s) ==
  LET q == FindChar(s, 1, ">")
  IN IF startswith(s, <<"<","?","x","m","l">>)
     THEN (IF q > 1 /\ s[q - 1] = "?" THEN q + 1 ELSE 0)
     ELSE 1

\* ET.fromstring(value): the root element, or ParseError
xml_fromstring(value) ==
  LET start == AfterDeclaration(value)
      root == XmlElem(value, SkipWs(value, start), NoNamespaces)
  IN IF start = 0 THEN Raise("ParseError")
     ELSE IF root.ok /\ SkipWs(value, root.next) = Len(value) + 1 THEN Ret(root.elem)
     ELSE Raise("ParseError")

\* root.iter(): the elements in document order
RECURSIVE iter(_)
RECURSIVE iter_kids(_, _)

iter_kids(kids, i) == IF i > Len(kids) THEN <<>> ELSE iter(kids[i]) \o iter_kids(kids, i + 1)

iter(elem) == <<elem>> \o iter_kids(elem.kids, 1)

(***************************************************************************)
(* str.split and float                                                     *)
(***************************************************************************)
\* s.split(): the runs of characters that are not white space
RECURSIVE split_ws(_, _, _, _)
split_ws(s, i, word, acc) ==
  IF i > Len(s) THEN (IF word = <<>> THEN acc ELSE Append(acc, word))
  ELSE IF IsSpace(s[i])
  THEN split_ws(s, i + 1, <<>>, IF word = <<>> THEN acc ELSE Append(acc, word))
  ELSE split_ws(s, i + 1, Append(word, s[i]), acc)

\* s.split(c): the parts between the separators, empty parts kept
RECURSIVE split_on(_, _, _, _, _)
split_on(s, c, i, part, acc) ==
  IF i > Len(s) THEN Append(acc, part)
  ELSE IF s[i] = c THEN split_on(s, c, i + 1, <<>>, Append(acc, part))
  ELSE split_on(s, c, i + 1, Append(part, s[i]), acc)

\* float(s) for a whole number with an optional sign
PyFloat(s) ==
  LET signed == s /= <<>> /\ s[1] \in {"-", "+"}
      d == IF signed THEN Tail(s) ELSE s
      n == ScanDigits(d, 1, 0)
  IN IF d /= <<>> /\ \A i \in 1..Len(d) : IsDigit(d[i])
     THEN Ret(IF signed /\ s[1] = "-" THEN 0 - n.val.v ELSE n.val.v)
     ELSE Raise("ValueError")

(***************************************************************************)
(* GeometryParser._parse_kml                                               *)
(***************************************************************************)
kmlWrapOpen == <<"<","r","o","o","t"," ","x","m","l","n","s",":","g","x","=","\"","h","t","t","p",":","/","/","w","w","w",".","g","o","o","g","l","e",".","c","o","m","/","k","m","l","/","e","x","t","/","2",".","2","\"",">">>

kmlWrapClose == <<"<","/","r","o","o","t",">">>

\* the text handed to ET.fromstring
kml_wrap(value) ==
  IF /\ ~startswith(strip(value), <<"<","?","x","m","l">>)
     /\ ~startswith(lower(strip(value)), <<"<","k","m","l">>)
  THEN kmlWrapOpen \o value \o kmlWrapClose
  ELSE value

\* elem.tag.lower().endswith('coordinates') or elem.tag == 'coordinates'
is_coordinates(elem) == endswith(lower(elem.tag), kCoordinates) \/ elem.tag = kCoordinates

\* the first coordinates element in document order: <<elem>>, or <<>> for None
coords_elem_of(root) ==
  LET all == iter(root)
      hits == {i \in 1..Len(all) : is_coordinates(all[i])}
  IN IF hits = {} THEN <<>> ELSE <<all[CHOOSE i \in hits : \A j \in hits : i <= j]>>

\* for pair in coord_pairs: ... points.append(QgsPointXY(lon, lat))
RECURSIVE kml_points(_, _, _)
kml_points(coord_pairs, i, points) ==
  IF i > Len(coord_pairs) THEN points
  ELSE LET parts == split_on(coord_pairs[i], ",", 1, <<>>, <<>>)
           lon == PyFloat(parts[1])
           lat == PyFloat(parts[2])
       IN IF Len(parts) >= 2 /\ ~IsRaise(lon) /\ ~IsRaise(lat)
          THEN kml_points(coord_pairs, i + 1, Append(points, <<lon.v, lat.v>>))
          ELSE kml_points(coord_pairs, i + 1, points)

\* for child in elem: if <child is a coordinates element>: ...; break
has_coordinates_child(elem) == \E i \in 1..Len(elem.kids) : is_coordinates(elem.kids[i])

\* the loop over root.iter() that sets parent_tag: every element with a
\* coordinates child assigns it, so the last one in document order stays
parent_tag_of(root) ==
  LET all == iter(root)
      hits == {i \in 1..Len(all) : has_coordinates_child(all[i])}
  IN IF hits = {} THEN <<>>
     ELSE lower(all[CHOOSE i \in hits : \A j \in hits : j <= i].tag)

\* if '}' in parent_tag: parent_tag = parent_tag.split('}')[1]
strip_namespace(parent_tag) ==
  IF contains(parent_tag, <<"}">>) THEN split_on(parent_tag, "}", 1, <<>>, <<>>)[2] ELSE parent_tag

\* a chain whose fallback on the point count never closes a ring
kml_geometry_open_rings(parent_tag, points) ==
  IF contains(parent_tag, tPoint) /\ Len(points) >= 1 THEN fromPointXY(points[1])
  ELSE IF contains(parent_tag, tLineString) /\ Len(points) >= 2 THEN fromPolylineXY(points)
  ELSE IF (contains(parent_tag, tPolygon) \/ contains(parent_tag, tLinearRing)) /\ Len(points) >= 3
  THEN fromPolygonXY(<<points>>)
  ELSE IF Len(points) = 1 THEN fromPointXY(points[1])
  ELSE IF Len(points) >= 2 THEN fromPolylineXY(points)
  ELSE PyNone

\* a chain without the fallback on the point count when the parent tag names a kind
kml_geometry_strict(parent_tag, points) ==
  IF contains(parent_tag, tPoint) THEN fromPointXY(points[1])
  ELSE IF contains(parent_tag, tLineString)
  THEN (IF Len(points) >= 2 THEN fromPolylineXY(points) ELSE PyNone)
  ELSE IF contains(parent_tag, tPolygon) \/ contains(parent_tag, tLinearRing)
  THEN (IF Len(points) >= 3 THEN fromPolygonXY(<<points>>) ELSE PyNone)
  ELSE IF Len(points) = 1 THEN fromPointXY(points[1])
  ELSE IF Len(points) >= 3 /\ points[1] = points[Len(points)] THEN fromPolygonXY(<<points>>)
  ELSE fromPolylineXY(points)

\* the chain that picks the geometry from the parent tag and the point count
kml_geometry(parent_tag, points) ==
  IF contains(parent_tag, tPoint) /\ Len(points) >= 1 THEN fromPointXY(points[1])
  ELSE IF contains(parent_tag, tLineString) /\ Len(points) >= 2 THEN fromPolylineXY(points)
  ELSE IF (contains(parent_tag, tPolygon) \/ contains(parent_tag, tLinearRing)) /\ Len(points) >= 3
  THEN fromPolygonXY(<<points>>)
  ELSE IF Len(points) = 1 THEN fromPointXY(points[1])
  ELSE IF Len(points) >= 3 /\ points[1] = points[Len(points)] THEN fromPolygonXY(<<points>>)
  ELSE IF Len(points) >= 2 THEN fromPolylineXY(points)
  ELSE PyNone

\* from `if not points` on
kml_from_points(root, points) ==
  IF points = <<>> THEN Ret(PyNone)
  ELSE Ret(kml_geometry(strip_namespace(parent_tag_of(root)), points))

\* from `if coords_elem is None or coords_elem.text is None` on
kml_from_elem(root, coords_elem) ==
  IF coords_elem = <<>> THEN Ret(PyNone)
  ELSE IF coords_elem[1].text = <<>> THEN Ret(PyNone)
  ELSE kml_from_points(root,
         kml_points(split_ws(strip(coords_elem[1].text), 1, <<>>, <<>>), 1, <<>>))

\* the try block once ET.fromstring has returned or raised
kml_from_root(root) ==
  IF IsRaise(root) THEN root ELSE kml_from_elem(root.v, coords_elem_of(root.v))

\* the body of the try block
kml_try(value) == kml_from_root(xml_fromstring(kml_wrap(value)))

\* except ET.ParseError
kml_except(r) == IF IsRaise(r) /\ r.e = "ParseError" THEN Ret(PyNone) ELSE r

parse_kml(value) == kml_except(kml_try(value))

(***************************************************************************)
(* GeometryParser._parse_xy.  A float is finite ([c |-> "finite", n]), NaN  *)
(* or an infinity.                                                         *)
(***************************************************************************)
Finite(n) == [c |-> "finite", n |-> n]

NaN == [c |-> "nan", n |-> 0]

Infinity == [c |-> "inf", n |-> 1]

PyFloatValue(f) == [t |-> "float", s |-> <<>>, f |-> f]

PyList == [t |-> "list", s |-> <<>>]

\* float(v): of a number the number; of a str what its trimmed text reads as,
\* "nan" and "inf" included; TypeError for any other object
float_of(v) ==
  CASE v.t = "float" -> Ret(v.f)
    [] v.t = "int" -> Ret(Finite(v.n))
    [] v.t = "str" ->
         LET text == lower(strip(v.s))
             n == PyFloat(text)
         IN IF text = <<"n","a","n">> THEN Ret(NaN)
            ELSE IF text \in {<<"i","n","f">>, <<"i","n","f","i","n","i","t","y">>} THEN Ret(Infinity)
            ELSE IF IsRaise(n) THEN n
            ELSE Ret(Finite(n.v))
    [] OTHER -> Raise("TypeError")

\* except (ValueError, TypeError)
xy_except(r) ==
  IF IsRaise(r) /\ r.e \in {"ValueError", "TypeError"} THEN Ret(PyNone) ELSE r

parse_xy(x_value, y_value) ==
  LET x == float_of(x_value)
      y == float_of(y_value)
  IN IF x_value.t = "None" \/ y_value.t = "None" THEN Ret(PyNone)
     ELSE IF IsRaise(x) THEN xy_except(x)
     ELSE IF IsRaise(y) THEN xy_except(y)
     ELSE Ret(fromPointXY(<<x.v, y.v>>))

(***************************************************************************)
(* GeometryParser.parse                                                    *)
(***************************************************************************)
\* the if/elif chain on format_type inside the try block
parse_dispatch(value, format_type) ==
  CASE format_type = WKT -> parse_wkt(value)
    [] format_type = WKB -> parse_wkb(value)
    [] format_type = EWKT -> parse_ewkt(value)
    [] format_type = EWKB -> parse_ewkb(value)
    [] format_type \in {GEOJSON, JSON} -> parse_geojson(value)
    [] format_type = KML -> parse_kml(value)
    [] format_type = EARTH_ENGINE -> parse_earth_engine(value)
    [] format_type = TOPOJSON -> parse_topojson(value)
    [] OTHER -> Ret(PyNone)

\* an except clause that lets everything but a JSON error through
parse_except_json_only(r) ==
  IF IsRaise(r) /\ r.e = "JSONDecodeError" THEN Ret(PyNone) ELSE r

\* except Exception: return None
parse_except(r) == IF IsRaise(r) THEN Ret(PyNone) ELSE r

\* the guard without its isinstance test
value_guard_truthy_only(value) == ~Truthy(value)

\* if not value or not isinstance(value, str)
value_guard(value) == ~Truthy(value) \/ ~IsStr(value)

parse(value, format_type, x_value, y_value) ==
  IF format_type = XY THEN parse_xy(x_value, y_value)
  ELSE IF value_guard(value) THEN Ret(PyNone)
  ELSE IF ~IsStr(value) THEN Raise("AttributeError")
  ELSE IF strip(value.s) = <<>> THEN Ret(PyNone)
  ELSE parse_except(parse_dispatch(strip(value.s), format_type))

(***************************************************************************)
(* QgsMessageLog.logMessage: the warnings a call of parse writes.  A        *)
(* message f"<text>: {str(e)}" is kept as its text and the error it quotes. *)
(***************************************************************************)
LogMessage(text, cause) == [text |-> text, cause |-> cause]

\* the message of an except clause that catches the errors in causes
raised_log(r, text, causes) ==
  IF IsRaise(r) /\ r.e \in causes THEN <<LogMessage(text, r.e)>> ELSE <<>>

\* except (binascii.Error, ValueError) in _parse_wkb and _parse_ewkb
wkb_log(value, text) == raised_log(unhexlify(value), text, {"binascii.Error", "ValueError"})

\* except json.JSONDecodeError in _parse_geojson
geojson_log(value) == raised_log(json_loads(value), "GeoJSON parsing error", {"JSONDecodeError"})

\* except ET.ParseError in _parse_kml
kml_log(value) == raised_log(xml_fromstring(kml_wrap(value)), "KML parsing error", {"ParseError"})

\* what _parse_geojson writes when the fallback branch calls it
ee_fallback_log(value) ==
  LET json_match == brace_search(value, 1)
  IN IF /\ ~ee_match(strip(value)).ok
        /\ contains(value, <<"{">>) /\ contains(value, kCoordinates) /\ json_match /= <<>>
     THEN geojson_log(SubSeq(value, json_match[1], json_match[2]))
     ELSE <<>>

\* except (json.JSONDecodeError, ValueError, IndexError) in _parse_earth_engine
ee_log(value) ==
  ee_fallback_log(value)
  \o raised_log(ee_try(value), "Earth Engine parsing error",
                {"JSONDecodeError", "ValueError", "IndexError"})

\* except (json.JSONDecodeError, ValueError) in _parse_topojson
topo_log(value) ==
  raised_log(topo_try(value), "TopoJSON parsing error", {"JSONDecodeError", "ValueError"})

\* what the branch of the if/elif chain writes: the decoder's own message, or
\* f"Unknown geometry format: {format_type}" in the else branch
dispatch_log(value, format_type) ==
  CASE format_type \in {WKT, EWKT} -> <<>>
    [] format_type = WKB -> wkb_log(value, "WKB parsing error")
    [] format_type = EWKB -> wkb_log(value, "EWKB parsing error")
    [] format_type \in {GEOJSON, JSON} -> geojson_log(value)
    [] format_type = KML -> kml_log(value)
    [] format_type = EARTH_ENGINE -> ee_log(value)
    [] format_type = TOPOJSON -> topo_log(value)
    [] OTHER -> <<LogMessage("Unknown geometry format", format_type)>>

\* except Exception as e: f"Error parsing geometry: {str(e)}"
parse_except_log(r) ==
  IF IsRaise(r) THEN <<LogMessage("Error parsing geometry", r.e)>> ELSE <<>>

\* the messages of one call of parse, in the order they are written
parse_log(value, format_type, x_value, y_value) ==
  IF format_type = XY THEN <<>>
  ELSE IF value_guard(value) THEN <<>>
  ELSE IF strip(value.s) = <<>> THEN <<>>
  ELSE dispatch_log(strip(value.s), format_type)
       \o parse_except_log(parse_dispatch(strip(value.s), format_type))

\* the arguments of a call of parse
Call(value, format_type, x_value, y_value) ==
  [value |-> value, format_type |-> format_type, x_value |-> x_value, y_value |-> y_value]

(***************************************************************************)
(* GeometryParser.get_geometry_type_from_sample                            *)
(***************************************************************************)
QgsWkbTypesUnknown == "Unknown"

\* geom.wkbType(): the kind of the geometry
wkbType(geom) == geom.kind

\* one pass of the loop body: <<kind>> when the sample makes the loop return,
\* <<>> when the loop moves on
sample_kind(sample, format_type) ==
  IF ~Truthy(sample) THEN Ret(<<>>)
  ELSE Bind(parse(sample, format_type, PyNone, PyNone),
            LAMBDA geom : Ret(IF IsGeom(geom) /\ ~isNullOrEmpty(geom) THEN <<wkbType(geom)>> ELSE <<>>))

\* a loop that returns at its first sample, decoded or not
samples_head_only(samples, format_type, i) ==
  IF i > Len(samples) THEN Ret(QgsWkbTypesUnknown)
  ELSE Bind(sample_kind(samples[i], format_type),
            LAMBDA kind : Ret(IF kind /= <<>> THEN kind[1] ELSE QgsWkbTypesUnknown))

\* for sample in samples: ...; return QgsWkbTypes.Unknown
RECURSIVE samples_loop(_, _, _)
samples_loop(samples, format_type, i) ==
  IF i > Len(samples) THEN Ret(QgsWkbTypesUnknown)
  ELSE Bind(sample_kind(samples[i], format_type),
            LAMBDA kind : IF kind /= <<>> THEN Ret(kind[1])
                          ELSE samples_loop(samples, format_type, i + 1))

get_geometry_type_from_sample(samples, format_type) == samples_loop(samples, format_type, 1)

\* the messages of the calls of parse the loop makes
RECURSIVE samples_log(_, _, _)
samples_log(samples, format_type, i) ==
  IF i > Len(samples) THEN <<>>
  ELSE IF ~Truthy(samples[i]) THEN samples_log(samples, format_type, i + 1)
  ELSE parse_log(samples[i], format_type, PyNone, PyNone)
       \o (IF sample_kind(samples[i], format_type) = Ret(<<>>)
           THEN samples_log(samples, format_type, i + 1)
           ELSE <<>>)

(***************************************************************************)
(* CSVGeometryImportDialog.import_csv: the loop over the data rows.  A row *)
(* is a tuple of cell texts; cols holds the 0-based column indices and the *)
(* number of headers.                                                      *)
(***************************************************************************)
isNull(geom) == geom.kind = "Null"

\* float(row[idx]) if idx < len(row) else None
cell_float(row, idx) ==
  IF idx < Len(row)
  THEN Bind(float_of(PyStr(row[idx + 1])), LAMBDA f : Ret(PyFloatValue(f)))
  ELSE Ret(PyNone)

\* row[geom_col_idx] if geom_col_idx < len(row) else ''
geom_value_of(row, geom_col_idx) ==
  IF geom_col_idx < Len(row) THEN PyStr(row[geom_col_idx + 1]) ELSE PyStr(<<>>)

\* the arguments GeometryParser.parse is called with for a row
row_call(row, format_type, cols) ==
  IF format_type = XY
  THEN Bind(cell_float(row, cols.x_idx), LAMBDA x_val :
         Bind(cell_float(row, cols.y_idx), LAMBDA y_val :
           Ret(Call(PyStr(<<>>), format_type, x_val, y_val))))
  ELSE Ret(Call(geom_value_of(row, cols.geom_col_idx), format_type, PyNone, PyNone))

\* a loop body without the try around the X-Y branch
row_except_reraise(format_type, r) == r

\* except (ValueError, IndexError): geom = None, around the X-Y branch only
row_except(format_type, r) ==
  IF format_type = XY /\ IsRaise(r) /\ r.e \in {"ValueError", "IndexError"}
  THEN Ret(PyNone)
  ELSE r

\* geom of a row: the parsed geometry or None
row_geometry(row, format_type, cols) ==
  row_except(format_type,
             Bind(row_call(row, format_type, cols),
                  LAMBDA c : parse(c.value, c.format_type, c.x_value, c.y_value)))

\* attrs of a row: the cells of the columns that hold no geometry, '' for a
\* cell the row does not have
row_attrs(row, cols) ==
  LET kept == SelectSeq([i \in 1..cols.headers |-> i - 1],
                        LAMBDA i : i \notin {cols.x_idx, cols.y_idx, cols.geom_col_idx})
  IN [k \in 1..Len(kept) |-> IF kept[k] < Len(row) THEN row[kept[k] + 1] ELSE <<>>]

QgsFeature(geom, attrs) == [geometry |-> geom, attributes |-> attrs]

\* the loop body after geom is known: count, skip or append
row_step(acc, geom, attrs, skip_invalid) ==
  IF IsNone(geom) \/ isNull(geom)
  THEN IF skip_invalid
       THEN [acc EXCEPT !.invalid_count = @ + 1]
       ELSE [features |-> Append(acc.features, QgsFeature(NullGeometry, attrs)),
             invalid_count |-> acc.invalid_count + 1]
  ELSE [acc EXCEPT !.features = Append(@, QgsFeature(geom, attrs))]

\* for row_idx, row in enumerate(data_rows): ...
RECURSIVE rows_loop(_, _, _, _, _, _)
rows_loop(data_rows, format_type, cols, skip_invalid, row_idx, acc) ==
  IF row_idx > Len(data_rows) THEN Ret(acc)
  ELSE Bind(row_geometry(data_rows[row_idx], format_type, cols),
            LAMBDA geom :
              rows_loop(data_rows, format_type, cols, skip_invalid, row_idx + 1,
                        row_step(acc, geom, row_attrs(data_rows[row_idx], cols), skip_invalid)))

\* the messages of the call of parse made for a row
row_log(r) ==
  IF IsRaise(r) THEN <<>>
  ELSE parse_log(r.v.value, r.v.format_type, r.v.x_value, r.v.y_value)

\* the messages of the calls of parse the loop makes
RECURSIVE rows_log(_, _, _, _)
rows_log(data_rows, format_type, cols, row_idx) ==
  IF row_idx > Len(data_rows) THEN <<>>
  ELSE row_log(row_call(data_rows[row_idx], format_type, cols))
       \o (IF IsRaise(row_geometry(data_rows[row_idx], format_type, cols)) THEN <<>>
           ELSE rows_log(data_rows, format_type, cols, row_idx + 1))

\* features = []; invalid_count = 0; the loop
import_rows(data_rows, format_type, cols, skip_invalid) ==
  rows_loop(data_rows, format_type, cols, skip_invalid, 1,
            [features |-> <<>>, invalid_count |-> 0])

(***************************************************************************)
(* CSVGeometryImportDialog: the widgets and fields import_csv and load_csv *)
(* read and write.  A CSV file is kept as what the handlers look at: whether*)
(* it has rows, whether its header row has columns, how many times the     *)
(* import loop calls processEvents on it (once for every 100 data rows     *)
(* begun), and the format the detection finds in its first rows.           *)
(***************************************************************************)
\* the most processEvents calls of one import
MaxBatches == 2

\* the most import_csv calls running inside one another
MaxDepth == 2

\* self.csv_path = None
NoFile == [content |-> "none", batches |-> 0, detected |-> UNKNOWN]

\* the files the user can choose: without rows, with a first line without
\* columns, and with data rows
CsvFiles ==
  {[content |-> "empty", batches |-> 0, detected |-> UNKNOWN],
   [content |-> "blank", batches |-> 0, detected |-> UNKNOWN]}
  \cup [content : {"data"}, batches : 0..MaxBatches, detected : {WKT, UNKNOWN}]

AutoDetect == "Auto-detect"

\* the entries of format_combo the model chooses from
FormatTexts == {AutoDetect, WKT, XY}

\* the dialog after __init__: no file, Import disabled, progress bar hidden
CSVGeometryImportDialog ==
  [csv_path |-> NoFile,
   detected_format |-> UNKNOWN,
   format_combo |-> AutoDetect,
   import_btn |-> FALSE,
   progress_bar |-> FALSE,
   running |-> <<>>,
   layers |-> 0,
   closed |-> FALSE,
   step |-> "__init__",
   outcome |-> "none"]

\* what a handler leaves behind as the step taken last
Stepped(d, step, outcome) == [d EXCEPT !.step = step, !.outcome = outcome]

\* load_csv: an empty file is refused with a warning; otherwise the preview
\* and the column combos are filled and the Import button is enabled
load_csv(d) ==
  IF d.csv_path = NoFile THEN d
  ELSE IF d.csv_path.content = "empty" THEN d
  ELSE IF d.csv_path.content = "blank" THEN [d EXCEPT !.import_btn = TRUE]
  ELSE [d EXCEPT !.import_btn = TRUE, !.detected_format = d.csv_path.detected]

\* browse_file, a file chosen in the file dialog
browse_file(d, file_path) == load_csv([d EXCEPT !.csv_path = file_path])

\* on_csv_options_changed and reload_csv
on_csv_options_changed(d) == IF d.csv_path /= NoFile THEN load_csv(d) ELSE d

\* get_format_to_use
get_format_to_use(d) ==
  IF d.format_combo = AutoDetect THEN d.detected_format ELSE d.format_combo

\* a finally clause that leaves the widgets as they are
import_finally_skipped(d) == d

\* finally: self.progress_bar.setVisible(False); self.import_btn.setEnabled(True)
import_finally(d) == [d EXCEPT !.progress_bar = FALSE, !.import_btn = TRUE]

\* the start of the try block
import_begin(d) == [d EXCEPT !.progress_bar = TRUE, !.import_btn = FALSE]

\* the end of the try block: the layer is created, the dialog accepted
import_success(d) == [d EXCEPT !.layers = d.layers + 1, !.closed = TRUE]

\* an import_csv call inside processEvents: the batches of its rows and how
\* many of its processEvents calls were made
Activation(batches) == [batches |-> batches, done |-> 1]

\* how import_csv can go on a file before its loop: an exception (the file
\* cannot be read any more), a warning, a layer that is not valid, or the loop
Courses(file) ==
  {"error"} \cup (CASE file.content = "empty" -> {"empty"}
                   [] file.content = "blank" -> {"column"}
                   [] OTHER -> {"layer", "loop"})

\* import_csv from the click to its first processEvents call or to its end
import_csv(d, course) ==
  IF d.csv_path = NoFile THEN Stepped(d, "import_csv", "refused")
  ELSE IF get_format_to_use(d) = UNKNOWN THEN Stepped(d, "import_csv", "refused")
  ELSE IF course \in {"error", "empty", "column", "layer"}
  THEN Stepped(import_finally(import_begin(d)), "import_csv", course)
  ELSE IF d.csv_path.batches = 0
  THEN Stepped(import_finally(import_success(import_begin(d))), "import_csv", "success")
  ELSE Stepped([import_begin(d) EXCEPT
                  !.running = Append(d.running, Activation(d.csv_path.batches))],
               "import_csv", "processEvents")

\* import_csv from the return of processEvents to the next one or to its end
import_resume(d, course) ==
  LET top == d.running[Len(d.running)]
      rest == SubSeq(d.running, 1, Len(d.running) - 1)
  IN IF course = "error"
     THEN Stepped([import_finally(d) EXCEPT !.running = rest], "import_csv", "error")
     ELSE IF top.done < top.batches
     THEN Stepped([d EXCEPT !.running = Append(rest, [top EXCEPT !.done = top.done + 1])],
                  "import_csv", "processEvents")
     ELSE Stepped([import_finally(import_success(d)) EXCEPT !.running = rest],
                  "import_csv", "success")

(***************************************************************************)
(* Bounded inputs of detect_format.                                        *)
(***************************************************************************)
\* the longest text put after a WKT keyword
MaxFollow == 2

\* the longest text put after the ten hexadecimal digits of a header
MaxHexTail == 2

SeqsUpTo(S, n) == UNION {[1..k -> S] : k \in 0..n}

FollowChars == {" ", "(", "Z", "M", "z", "E", "R", "1"}

KeywordSamples ==
  {kw \o f : kw \in {wkt_types[i] : i \in 1..Len(wkt_types)}
                    \cup {lower(wkt_types[i]) : i \in 1..Len(wkt_types)},
             f \in SeqsUpTo(FollowChars, MaxFollow)}

OrderPairs == {<<"0","0">>, <<"0","1">>, <<"1","0">>}

HexPairs == {<<"0","0">>, <<"0","1">>, <<"2","0">>, <<"D","F">>, <<"f","f">>}

HexHeaders ==
  {o \o a \o b \o c \o d : o \in OrderPairs, a \in HexPairs, b \in HexPairs,
                           c \in HexPairs, d \in HexPairs}

HexSamples ==
  {SubSeq(h, 1, n) : h \in HexHeaders, n \in 1..9}
  \cup {h \o t : h \in HexHeaders, t \in SeqsUpTo({"0", "a"}, MaxHexTail)}

JsonKeys == <<kType, kCoordinates, kGeometries, kArcs, kObjects, <<"n","a","m","e">> >>

\* values given to the keys (a tuple: JSON values of different types are never
\* collected in one set)
JsonFill == <<JNum(1), JStr(<<"<","c","o","o","r","d","i","n","a","t","e","s">>), JArr(<<>>)>>

RECURSIVE PickEntries(_, _, _)
PickEntries(mask, fill, i) ==
  IF i > Len(JsonKeys) THEN <<>>
  ELSE (IF mask[i] THEN <<Entry(JsonKeys[i], fill)>> ELSE <<>>)
       \o PickEntries(mask, fill, i + 1)

MiscSamples ==
  { PyNone, PyInt(0), PyInt(5), PyStr(<<>>), PyStr(<<" ">>), PyStr(<<" ", "\t", "\n">>),
    PyStr(<<"n","o","t"," ","a"," ","g","e","o","m","e","t","r","y"," ","a","t"," ","a","l","l">>),
    PyStr(<<"P","O","I","N","T","E","R","(","1"," ","2",")">>),
    PyStr(<<" ","P","O","I","N","T","(","1"," ","2",")"," ">>),
    PyStr(<<"S","R","I","D","=","4","3","2","6",";","P","O","I","N","T","(","1"," ","2",")">>),
    PyStr(<<"s","r","i","d","=","1",";","x">>),
    PyStr(<<"<","P","o","i","n","t",">","<","c","o","o","r","d","i","n","a","t","e","s",">","1",",","2","<","/","c","o","o","r","d","i","n","a","t","e","s",">","<","/","P","o","i","n","t",">">>),
    PyStr(<<"<","f","o","o",">">>),
    PyStr(<<"x"," ","<","C","o","o","r","d","i","n","a","t","e","s",">">>),
    PyStr(<<"e","e",".","G","e","o","m","e","t","r","y",".","P","o","i","n","t","(","[","1",","," ","2","]",")">>),
    PyStr(<<"E","E",".","G","e","o","m","e","t","r","y">>),
    PyStr(<<"{">>), PyStr(<<"{","}">>), PyStr(<<"{","<","c","o","o","r","d","i","n","a","t","e","s">>),
    PyStr(<<"[","1",","," ","2","]">>),
    PyStr(<<"0","G">>), PyStr(<<"a","b","c">>), PyStr(<<" ","0","1"," ">>) }

\* No call has been made yet.  The entry points are static and keep no state
\* between calls, so a behaviour is one call made from this state.
InitCall ==
  /\ fn = "none"
  /\ args = [sample |-> PyNone]
  /\ result = Ret(UNKNOWN)
  /\ log = <<>>
  /\ history = <<>>
  /\ dialog = CSVGeometryImportDialog

DetectKeyword ==
  /\ fn = "none"
  /\ \E s \in KeywordSamples :
       /\ fn' = "detect_format"
       /\ args' = [sample |-> PyStr(s), family |-> "keyword"]
       /\ result' = detect_format(PyStr(s))
       /\ log' = <<>>
       /\ UNCHANGED <<history, dialog>>

DetectHex ==
  /\ fn = "none"
  /\ \E s \in HexSamples :
       /\ fn' = "detect_format"
       /\ args' = [sample |-> PyStr(s), family |-> "hex"]
       /\ result' = detect_format(PyStr(s))
       /\ log' = <<>>
       /\ UNCHANGED <<history, dialog>>

\* a JSON document as json.dumps writes it, whole or with its last character cut
DetectJson ==
  /\ fn = "none"
  /\ \E mask \in [1..Len(JsonKeys) -> BOOLEAN], f \in 1..Len(JsonFill), cut \in BOOLEAN :
       LET doc == JObj(PickEntries(mask, JsonFill[f], 1))
           text == json_dumps(doc)
           s == IF cut THEN SubSeq(text, 1, Len(text) - 1) ELSE text
       IN /\ fn' = "detect_format"
          /\ args' = [sample |-> PyStr(s), family |-> "json", doc |-> doc, cut |-> cut]
          /\ result' = detect_format(PyStr(s))
          /\ log' = <<>>
          /\ UNCHANGED <<history, dialog>>

DetectMisc ==
  /\ fn = "none"
  /\ \E v \in MiscSamples :
       /\ fn' = "detect_format"
       /\ args' = [sample |-> v, family |-> "misc"]
       /\ result' = detect_format(v)
       /\ log' = <<>>
       /\ UNCHANGED <<history, dialog>>

NextDetect == DetectKeyword \/ DetectHex \/ DetectJson \/ DetectMisc

SpecDetect == InitCall /\ [][NextDetect]_vars

(***************************************************************************)
(* Properties of detect_format.                                            *)
(***************************************************************************)
FormatTags == {WKT, WKB, EWKT, EWKB, GEOJSON, KML, EARTH_ENGINE, TOPOJSON, UNKNOWN}

NoRuleTexts ==
  { <<"n","o","t"," ","a"," ","g","e","o","m","e","t","r","y"," ","a","t"," ","a","l","l">>,
    <<"P","O","I","N","T","E","R","(","1"," ","2",")">>,
    <<"<","f","o","o",">">>, <<"E","E",".","G","e","o","m","e","t","r","y">>,
    <<"[","1",","," ","2","]">>, <<"0","G">>, <<"a","b","c">>, <<"{">>, <<"{","}">> }

C4_WktGuard ==
  fn = "detect_format" /\ IsStr(args.sample) =>
    LET s == upper(strip(args.sample.s))
        guarded == \E i \in 1..Len(wkt_types) :
                     LET n == Len(wkt_types[i])
                     IN /\ startswith(s, wkt_types[i])
                        /\ (Len(s) = n \/ s[n + 1] \in {" ", "(", "Z", "M"})
    IN /\ (s /= <<>> /\ ~startswith(s, <<"S","R","I","D","=">>))
            => ((result = Ret(WKT)) <=> guarded)
       /\ s = <<"P","O","I","N","T","E","R","(","1"," ","2",")">> => result = Ret(UNKNOWN)

C4_Witness ==
  /\ fn = "detect_format"
  /\ IsStr(args.sample)
  /\ args.sample.s = <<"P","O","I","N","T","E","R">>
  /\ result = Ret(UNKNOWN)

\* C5: a sample starting with "{" is GeoJSON when it parses as an object with a
\* type key and a coordinates or geometries key (also with arcs or objects
\* beside them), else TopoJSON when it has an arcs or objects key; when the parse
\* fails or no key rule matches, the later rules decide (KML for a text holding
\* "<coordinates", else Unknown: the Earth Engine and hex rules cannot match a
\* text that starts with "{").
C5_JsonStep ==
  fn = "detect_format" /\ args.family = "json" =>
    LET d == args.doc
        geo == /\ ~args.cut
               /\ HasKey(d, kType)
               /\ (HasKey(d, kCoordinates) \/ HasKey(d, kGeometries))
        topo == ~args.cut /\ (HasKey(d, kArcs) \/ HasKey(d, kObjects))
        later == IF contains(lower(args.sample.s), <<"<","c","o","o","r","d","i","n","a","t","e","s">>)
                 THEN KML ELSE UNKNOWN
    IN result = Ret(IF geo THEN GEOJSON ELSE IF topo THEN TOPOJSON ELSE later)

C5_Witness ==
  /\ fn = "detect_format"
  /\ args.family = "json"
  /\ args.cut
  /\ HasKey(args.doc, kType) /\ HasKey(args.doc, kCoordinates)
  /\ result = Ret(KML)

\* C6: an all-hex sample of even length below 10 is WKB; of even length 10 or
\* more it is EWKB exactly when bit 0x20000000 of the word in characters 3..10,
\* byte-swapped when the first pair is 01, is set (the bit is the 2-bit of the
\* word's leading hex digit: character 3, or character 9 after the swap), else
\* WKB; an all-hex sample of odd length is Unknown.
C6_HexRule ==
  fn = "detect_format" /\ args.family = "hex" =>
    LET s == args.sample.s
        lead == IF SubSeq(s, 1, 2) = <<"0","1">> THEN s[9] ELSE s[3]
        flag == lead \in {"2","3","6","7","A","B","E","F","a","b","e","f"}
    IN result = Ret(IF Len(s) % 2 = 1 THEN UNKNOWN
                    ELSE IF Len(s) < 10 THEN WKB
                    ELSE IF flag THEN EWKB ELSE WKB)

C6_Witness ==
  /\ fn = "detect_format"
  /\ args.family = "hex"
  /\ Len(args.sample.s) = 12
  /\ SubSeq(args.sample.s, 1, 10) = <<"0","1","0","1","0","0","0","0","2","0">>
  /\ result = Ret(EWKB)

(***************************************************************************)
(* Bounded inputs of parse.  A ring shape says how many two-component and  *)
(* three-component points the ring has (good) and whether a point of fewer *)
(* than two components follows its first point (short).                    *)
(***************************************************************************)
\* the most well-formed points of a generated ring
MaxGood == 4

\* the most rings of a generated polygon
MaxRings == 2

RingShapes == [good : 0..MaxGood, short : 0..1]

\* point i of ring r, the list the points are written from
GoodPoint(r, i) == <<10 * r + i, i>>

\* the JSON of a good point: every second one carries a third component
PointDoc(r, i) ==
  JArr(IF i % 2 = 0
       THEN <<JNum(10 * r + i), JNum(i), JNum(7)>>
       ELSE <<JNum(10 * r + i), JNum(i)>>)

\* a point of r % 2 components
ShortDoc(r) == JArr(IF r % 2 = 0 THEN <<>> ELSE <<JNum(9)>>)

GoodDocs(r, shape) == [i \in 1..shape.good |-> PointDoc(r, i)]

RingDoc(r, shape) ==
  LET good == GoodDocs(r, shape)
  IN JArr(IF shape.short = 0 THEN good
          ELSE IF good = <<>> THEN <<ShortDoc(r)>>
          ELSE <<good[1], ShortDoc(r)>> \o Tail(good))

RingsDoc(shapes) == JArr([r \in 1..Len(shapes) |-> RingDoc(r, shapes[r])])

GeometryDoc(type, coords) ==
  JObj(<<Entry(kType, JStr(type)), Entry(kCoordinates, coords)>>)

PolygonWords == {<<"P","o","l","y","g","o","n">>, <<"p","o","l","y","g","o","n">>}

\* the x and y arguments of the coordinate-pair path
XYValues ==
  {PyNone, PyInt(3), PyInt(-181), PyFloatValue(Finite(2)), PyFloatValue(NaN),
   PyFloatValue(Infinity), PyStr(<<"1","2">>), PyStr(<<" ","7"," ">>), PyStr(<<"a","b","c">>),
   PyStr(<<"n","a","n">>), PyStr(<<>>), PyList}

\* texts every decoder is tried on: well-formed ones, truncated ones and
\* ones whose structure is not the one the decoder reads
TextSamples ==
  {<<"P","O","I","N","T","(","1"," ","2",")">>,
   <<"p","o","i","n","t"," ","e","m","p","t","y">>,
   <<"n","o","n","s","e","n","s","e">>,
   <<"0","1","0","1","0","0","0","0","0","0","0","0","0","0","0","0","0","0","0","0","0","0","F","0","3","F","0","0","0","0","0","0","0","0","0","0","0","0","0","0","4","0">>,
   <<"S","R","I","D","=","4","3","2","6",";","P","O","I","N","T","(","1"," ","2",")">>,
   <<"{","\"","t","y","p","e","\"",":"," ","\"","P","o","i","n","t","\"",","," ","\"","c","o","o","r","d","i","n","a","t","e","s","\"",":"," ","[","1",","," ","2","]","}">>,
   <<"{","\"","t","y","p","e","\"",":"," ","\"","P","o","i","n","t","\"",","," ","\"","c","o","o","r","d","i","n","a","t","e","s","\"",":"," ","5","}">>,
   <<"{","\"","t","y","p","e","\"",":"," ","5","}">>,
   <<"[","1",","," ","2","]">>,
   <<"{","\"","t","y","p","e","\"",":"," ","\"","P","o","i","n","t","\"">>,
   <<"<","P","o","i","n","t",">","<","c","o","o","r","d","i","n","a","t","e","s",">","1",",","2",",","0","<","/","c","o","o","r","d","i","n","a","t","e","s",">","<","/","P","o","i","n","t",">">>,
   <<"<","P","o","i","n","t",">","<","c","o","o","r","d","i","n","a","t","e","s",">","1",",","2">>,
   <<"e","e",".","G","e","o","m","e","t","r","y",".","P","o","i","n","t","(","[","1",","," ","2","]",")">>,
   <<"e","e",".","G","e","o","m","e","t","r","y",".","M","u","l","t","i","P","o","i","n","t","(","[","[","1",","," ","2","]",","," ","5","]",")">>,
   <<"e","e",".","G","e","o","m","e","t","r","y",".","P","o","i","n","t","(","[","1","]",")">>,
   <<"{","\"","o","b","j","e","c","t","s","\"",":"," ","{","\"","a","\"",":"," ","{","\"","t","y","p","e","\"",":"," ","\"","P","o","i","n","t","\"",","," ","\"","c","o","o","r","d","i","n","a","t","e","s","\"",":"," ","[","1",","," ","2","]","}","}","}">>,
   <<"{","\"","o","b","j","e","c","t","s","\"",":"," ","[","1","]","}">>}

BlankSamples == {<<>>, <<" "," "," ">>}

NonStrings == {PyNone, PyInt(0), PyInt(5), PyFloatValue(Finite(2)), PyList}

\* a tag GeometryFormat does not have
Shapefile == "Shapefile"

FormatSamples == {all_formats[i] : i \in 1..Len(all_formats)} \cup {JSON, UNKNOWN, Shapefile}

\* the members a generated GeometryCollection is made of
MemberDocs ==
  << GeometryDoc(tPoint, JArr(<<JNum(1), JNum(2)>>)),
     GeometryDoc(tLineString, JArr(<<JArr(<<JNum(0), JNum(0)>>), JArr(<<JNum(1), JNum(1)>>)>>)),
     GeometryDoc(tPoint, JArr(<<JNum(1)>>)),
     GeometryDoc(<<"C","i","r","c","l","e">>, JArr(<<JNum(1), JNum(2)>>)),
     GeometryDoc(tLineString, JArr(<<JNum(1), JNum(2)>>)),
     JNum(5),
     GeometryDoc(tPoint, JArr(<<JNum(3), JNum(4)>>)) >>

\* the most members of a generated GeometryCollection
MaxMembers == 2

MemberPicks == SeqsUpTo(1..Len(MemberDocs), MaxMembers)

CollectionDoc(picks) ==
  JObj(<<Entry(kType, JStr(tGeometryCollection)),
         Entry(kGeometries, JArr([i \in 1..Len(picks) |-> MemberDocs[picks[i]]]))>>)

\* the words an Earth Engine call is written with
EEWords ==
  {<<"P","o","i","n","t">>, <<"M","u","l","t","i","P","o","i","n","t">>, <<"L","i","n","e","S","t","r","i","n","g">>, <<"L","i","n","e","a","r","R","i","n","g">>, <<"P","o","l","y","g","o","n">>,
   <<"M","u","l","t","i","P","o","l","y","g","o","n">>, <<"R","e","c","t","a","n","g","l","e">>, <<"B","B","o","x">>, <<"C","i","r","c","l","e">>}

Levels == {"flat", "points", "rings", "polygons"}

\* the coordinates written from the shapes: a list of numbers, a list of
\* points, a list of rings or a list of one-ring polygons
CoordsDoc(level, shapes) ==
  CASE level = "flat" -> JArr([i \in 1..shapes[1].good |-> JNum(i)])
    [] level = "points" -> RingDoc(1, shapes[1])
    [] level = "rings" -> RingsDoc(shapes)
    [] level = "polygons" -> JArr([r \in 1..Len(shapes) |-> JArr(<<RingDoc(r, shapes[r])>>)])

\* the shape lists a level is written from
LevelShapes(level) ==
  IF level \in {"flat", "points"} THEN [1..1 -> RingShapes]
  ELSE SeqsUpTo(RingShapes, MaxRings)

EEText(word, coords) == eePrefix \o word \o <<"(">> \o json_dumps(coords) \o <<")">>

\* the type words of a generated GeoJSON geometry
GeoWords ==
  {<<"P","o","i","n","t">>, <<"M","u","l","t","i","P","o","i","n","t">>, <<"L","i","n","e","S","t","r","i","n","g">>,
   <<"M","u","l","t","i","L","i","n","e","S","t","r","i","n","g">>, <<"P","o","l","y","g","o","n">>, <<"M","u","l","t","i","P","o","l","y","g","o","n">>}

\* the elements a generated KML fragment puts around <coordinates>
KmlParents ==
  {<<"P","o","i","n","t">>, <<"L","i","n","e","S","t","r","i","n","g">>, <<"P","o","l","y","g","o","n">>, <<"L","i","n","e","a","r","R","i","n","g">>, <<"P","l","a","c","e","m","a","r","k">>}

\* "x,y" or "x,y,0" of point i
KmlTuple(i) ==
  IntChars(10 + i) \o <<",">> \o IntChars(i) \o (IF i % 2 = 0 THEN <<",", "0">> ELSE <<>>)

\* the tuples of a shape, the first one repeated at the end of a closed one
RECURSIVE KmlTuples(_, _, _)
KmlTuples(shape, closed, i) ==
  IF i > shape.good
  THEN IF closed /\ shape.good > 0 THEN <<" ">> \o KmlTuple(1) ELSE <<>>
  ELSE <<" ">> \o KmlTuple(i)
       \o (IF i = 1 /\ shape.short = 1 THEN <<" ", "9">> ELSE <<>>)
       \o KmlTuples(shape, closed, i + 1)

KmlText(parent, shape, closed) ==
  <<"<">> \o parent \o <<">","<","c","o","o","r","d","i","n","a","t","e","s",">">>
  \o (IF shape.good = 0 /\ shape.short = 1 THEN <<"9">> ELSE KmlTuples(shape, closed, 1))
  \o <<"<","/","c","o","o","r","d","i","n","a","t","e","s",">","<","/">> \o parent \o <<">">>

\* a document whose root is the coordinates element, so that it has no parent
KmlRootText(shape, closed) ==
  <<"<","?","x","m","l"," ","v","e","r","s","i","o","n","=","\"","1",".","0","\"","?",">">>
  \o <<"<","c","o","o","r","d","i","n","a","t","e","s",">">>
  \o (IF shape.good = 0 /\ shape.short = 1 THEN <<"9">> ELSE KmlTuples(shape, closed, 1))
  \o <<"<","/","c","o","o","r","d","i","n","a","t","e","s",">">>

\* a fragment with two geometry elements, each with a coordinates element of its
\* own; the second one holds the single point 11,1
KmlPairText(first, shape, second) ==
  <<"<","M","u","l","t","i","G","e","o","m","e","t","r","y",">">>
  \o KmlText(first, shape, FALSE) \o KmlText(second, [good |-> 1, short |-> 0], FALSE)
  \o <<"<","/","M","u","l","t","i","G","e","o","m","e","t","r","y",">">>

\* the arcs of a generated topology: two that share an end, and a single point
ArcTable ==
  JArr(<< JArr(<<JArr(<<JNum(0), JNum(0)>>), JArr(<<JNum(1), JNum(0)>>)>>),
          JArr(<<JArr(<<JNum(1), JNum(0)>>), JArr(<<JNum(0), JNum(1)>>), JArr(<<JNum(-1), JNum(-1)>>)>>),
          JArr(<<JArr(<<JNum(5), JNum(5)>>)>>) >>)

ArcRefs == {0, 1, 2, -1, -2, 5}

\* the most arc references of a generated object
MaxRefs == 2

TopoWords ==
  {<<"L","i","n","e","S","t","r","i","n","g">>, <<"M","u","l","t","i","L","i","n","e","S","t","r","i","n","g">>, <<"P","o","l","y","g","o","n">>, <<"M","u","l","t","i","P","o","l","y","g","o","n">>}

\* the references, nested depth lists deep
RECURSIVE Nested(_, _)
Nested(refs, depth) ==
  IF depth = 1 THEN JArr([i \in 1..Len(refs) |-> JNum(refs[i])])
  ELSE JArr(<<Nested(refs, depth - 1)>>)

kTopology == <<"T","o","p","o","l","o","g","y">>

TopologyDoc(word, refs, depth) ==
  JObj(<< Entry(kType, JStr(kTopology)),
          Entry(kObjects, JObj(<<Entry(<<"a">>, JObj(<< Entry(kType, JStr(word)),
                                                      Entry(kArcs, Nested(refs, depth)) >>))>>)),
          Entry(kArcs, ArcTable) >>)

\* what a generated topology has under `objects`
ObjectsChoices == {"missing", "empty", "point", "line"}

\* a topology with or without its `objects` and `arcs` members
TopologyParts(objects, hasArcs) ==
  JObj(<<Entry(kType, JStr(kTopology))>>
       \o (CASE objects = "missing" -> <<>>
             [] objects = "empty" -> <<Entry(kObjects, JObj(<<>>))>>
             [] objects = "point" ->
                  <<Entry(kObjects, JObj(<<Entry(<<"a">>,
                      GeometryDoc(<<"P","o","i","n","t">>, JArr(<<JNum(1), JNum(2)>>)))>>))>>
             [] objects = "line" ->
                  <<Entry(kObjects, JObj(<<Entry(<<"a">>,
                      JObj(<< Entry(kType, JStr(<<"L","i","n","e","S","t","r","i","n","g">>)),
                              Entry(kArcs, JArr(<<JNum(0)>>)) >>))>>))>>)
       \o (IF hasArcs THEN <<Entry(kArcs, ArcTable)>> ELSE <<>>))

\* the prefixes, SRID digits and remainders of the generated EWKT values
SridPrefixes == {<<"S","R","I","D","=">>, <<"s","r","i","d","=">>, <<"S","r","i","d","=">>,
                 <<"S","R","I","D",":">>, <<>>}

SridDigits == {<<"4","3","2","6">>, <<"7">>, <<>>}

Remainders ==
  {<<"P","O","I","N","T","(","1"," ","2",")">>,
   <<" ","P","O","I","N","T","(","1"," ","2",")">>,
   <<"\n","P","O","I","N","T","(","1"," ","2",")">>,
   <<"p","o","i","n","t"," ","e","m","p","t","y">>,
   <<"n","o","n","s","e","n","s","e">>}

EwktText(prefix, digits, rest) == prefix \o digits \o <<";">> \o rest

\* the words of a generated Earth Engine rectangle and the most numbers in it
RectangleWords == {<<"R","e","c","t","a","n","g","l","e">>, <<"B","B","o","x">>,
                   <<"r","e","c","t","a","n","g","l","e">>, <<"B","B","O","X">>}

MaxNumbers == 5

\* the array [1, 2, ..., count]: west 1, south 2, east 3, north 4
NumbersDoc(count) == JArr([i \in 1..count |-> JNum(i)])

\* GeoJSON geometry objects, each with what it decodes to on its own
FeatureDocs ==
  << [doc |-> GeometryDoc(<<"P","o","i","n","t">>, JArr(<<JNum(1), JNum(2)>>)),
      geom |-> Ret(fromPointXY(<<1, 2>>))],
     [doc |-> GeometryDoc(<<"P","O","I","N","T">>, JArr(<<JNum(1), JNum(2)>>)),
      geom |-> Ret(fromPointXY(<<1, 2>>))],
     [doc |-> GeometryDoc(<<"l","i","n","e","S","T","R","I","N","G">>,
                          JArr(<<JArr(<<JNum(0), JNum(0)>>), JArr(<<JNum(1), JNum(1)>>)>>)),
      geom |-> Ret(fromPolylineXY(<< <<0, 0>>, <<1, 1>> >>))],
     [doc |-> GeometryDoc(<<"P","o","l","y","g","o","n">>,
                          JArr(<<JArr(<<JArr(<<JNum(0), JNum(0)>>), JArr(<<JNum(1), JNum(0)>>),
                                        JArr(<<JNum(1), JNum(1)>>), JArr(<<JNum(0), JNum(0)>>)>>)>>)),
      geom |-> Ret(fromPolygonXY(<< << <<0, 0>>, <<1, 0>>, <<1, 1>>, <<0, 0>> >> >>))],
     [doc |-> CollectionDoc(<<1, 2>>),
      geom |-> Ret(combine(fromPointXY(<<1, 2>>), fromPolylineXY(<< <<0, 0>>, <<1, 1>> >>)))],
     [doc |-> GeometryDoc(<<"P","o","i","n","t">>, JArr(<<JNum(1)>>)),
      geom |-> Ret(PyNone)],
     [doc |-> GeometryDoc(<<"C","i","r","c","l","e">>, JArr(<<JNum(1), JNum(2)>>)),
      geom |-> Ret(PyNone)],
     [doc |-> JObj(<<Entry(kCoordinates, JArr(<<JNum(1), JNum(2)>>))>>),
      geom |-> Ret(PyNone)],
     [doc |-> JObj(<<Entry(kType, JNum(5)), Entry(kCoordinates, JArr(<<JNum(1), JNum(2)>>))>>),
      geom |-> Ret(PyNone)] >>

\* how a geometry object is handed over: itself, as the geometry of a Feature,
\* or a Feature with no geometry member or a null one
Wraps == {"bare", "feature", "missing", "null"}

kProperties == <<"p","r","o","p","e","r","t","i","e","s">>

FeatureDoc(wrap, g) ==
  CASE wrap = "bare" -> g
    [] wrap = "feature" -> JObj(<<Entry(kType, JStr(kFeature)), Entry(kGeometry, g)>>)
    [] wrap = "missing" -> JObj(<<Entry(kType, JStr(kFeature)), Entry(kProperties, g)>>)
    [] wrap = "null" -> JObj(<<Entry(kType, JStr(kFeature)), Entry(kGeometry, JNull)>>)

(***************************************************************************)
(* The calls of parse.                                                     *)
(***************************************************************************)
\* GeometryParser.parse('', format_type, x_value=x_val, y_value=y_val)
ParseXY ==
  /\ fn = "none"
  /\ \E x \in XYValues, y \in XYValues :
       /\ fn' = "parse"
       /\ args' = [call |-> Call(PyStr(<<>>), XY, x, y), family |-> "xy"]
       /\ result' = parse(PyStr(<<>>), XY, x, y)
       /\ log' = parse_log(PyStr(<<>>), XY, x, y)
       /\ UNCHANGED <<history, dialog>>

\* the calls of a family of inputs, each with what it was generated from
Calls(family) ==
  CASE family = "text" ->
         {[call |-> Call(value, format_type, PyNone, PyNone), family |-> family] :
            value \in {PyStr(t) : t \in TextSamples \cup BlankSamples} \cup NonStrings,
            format_type \in FormatSamples}
    [] family = "polygon" ->
         {[call |-> Call(PyStr(json_dumps(GeometryDoc(word, RingsDoc(shapes)))),
                         GEOJSON, PyNone, PyNone),
           family |-> family, shapes |-> shapes] :
            word \in PolygonWords, shapes \in SeqsUpTo(RingShapes, MaxRings)}
    [] family = "collection" ->
         {[call |-> Call(PyStr(json_dumps(CollectionDoc(picks))), GEOJSON, PyNone, PyNone),
           family |-> family, picks |-> picks] : picks \in MemberPicks}
    [] family = "geojson" ->
         UNION {{[call |-> Call(PyStr(json_dumps(GeometryDoc(word, CoordsDoc(level, shapes)))),
                                GEOJSON, PyNone, PyNone),
                  family |-> family, word |-> word, level |-> level, shapes |-> shapes] :
                   word \in GeoWords, shapes \in LevelShapes(level)} : level \in Levels}
    [] family = "earth_engine" ->
         UNION {{[call |-> Call(PyStr(EEText(word, CoordsDoc(level, shapes))),
                                EARTH_ENGINE, PyNone, PyNone),
                  family |-> family, word |-> word, level |-> level, shapes |-> shapes] :
                   word \in EEWords, shapes \in LevelShapes(level)} : level \in Levels}
    [] family = "kml" ->
         {[call |-> Call(PyStr(KmlText(parent, shape, closed)), KML, PyNone, PyNone),
           family |-> family, parent |-> parent, shape |-> shape, closed |-> closed] :
            parent \in KmlParents, shape \in RingShapes, closed \in BOOLEAN}
    [] family = "kml_root" ->
         {[call |-> Call(PyStr(KmlRootText(shape, closed)), KML, PyNone, PyNone),
           family |-> family, parent |-> <<>>, shape |-> shape, closed |-> closed] :
            shape \in RingShapes, closed \in BOOLEAN}
    [] family = "kml_pair" ->
         {[call |-> Call(PyStr(KmlPairText(first, shape, second)), KML, PyNone, PyNone),
           family |-> family, first |-> first, shape |-> shape, second |-> second] :
            first \in KmlParents, shape \in RingShapes, second \in KmlParents}
    [] family = "topology" ->
         {[call |-> Call(PyStr(json_dumps(TopologyParts(objects, hasArcs))),
                         TOPOJSON, PyNone, PyNone),
           family |-> family, objects |-> objects, hasArcs |-> hasArcs] :
            objects \in ObjectsChoices, hasArcs \in BOOLEAN}
    [] family = "ewkt" ->
         {[call |-> Call(PyStr(EwktText(prefix, digits, rest)), EWKT, PyNone, PyNone),
           family |-> family, prefix |-> prefix, digits |-> digits, rest |-> rest] :
            prefix \in SridPrefixes, digits \in SridDigits, rest \in Remainders}
    [] family = "rectangle" ->
         {[call |-> Call(PyStr(EEText(word, NumbersDoc(count))), EARTH_ENGINE, PyNone, PyNone),
           family |-> family, word |-> word, count |-> count] :
            word \in RectangleWords, count \in 0..MaxNumbers}
    [] family = "feature" ->
         {[call |-> Call(PyStr(json_dumps(FeatureDoc(wrap, FeatureDocs[i].doc))),
                         GEOJSON, PyNone, PyNone),
           family |-> family, wrap |-> wrap, i |-> i] :
            wrap \in Wraps, i \in 1..Len(FeatureDocs)}
    [] family = "topojson" ->
         {[call |-> Call(PyStr(json_dumps(TopologyDoc(word, refs, depth))),
                         TOPOJSON, PyNone, PyNone),
           family |-> family, word |-> word, refs |-> refs, depth |-> depth] :
            word \in TopoWords, refs \in SeqsUpTo(ArcRefs, MaxRefs), depth \in 1..3}

Families ==
  {"text", "polygon", "collection", "geojson", "earth_engine", "kml", "kml_pair", "topojson",
   "topology", "ewkt", "rectangle", "feature", "kml_root"}

\* GeometryParser.parse(value, format_type)
Parse ==
  /\ fn = "none"
  /\ \E family \in Families :
       \E a \in Calls(family) :
         /\ fn' = "parse"
         /\ args' = a
         /\ result' = parse(a.call.value, a.call.format_type, a.call.x_value, a.call.y_value)
         /\ log' = parse_log(a.call.value, a.call.format_type, a.call.x_value, a.call.y_value)
         /\ UNCHANGED <<history, dialog>>

Next == ParseXY \/ Parse

Spec == InitCall /\ [][Next]_vars

(***************************************************************************)
(* The calls of get_geometry_type_from_sample.                             *)
(***************************************************************************)
\* the values of a sample list
KindSamples ==
  { PyNone, PyStr(<<>>), PyInt(5),
    PyStr(<<"P","O","I","N","T","(","1"," ","2",")">>),
    PyStr(<<"L","I","N","E","S","T","R","I","N","G","(","0"," ","0",","," ","1"," ","1",")">>),
    PyStr(<<"P","O","I","N","T"," ","E","M","P","T","Y">>),
    PyStr(json_dumps(GeometryDoc(tPolygon, RingsDoc(<<[good |-> 3, short |-> 0]>>)))),
    PyStr(json_dumps(GeometryDoc(tPoint, JArr(<<JNum(1)>>)))) }

\* the longest sample list
MaxSamples == 3

KindFormats == {WKT, GEOJSON, XY}

\* GeometryParser.get_geometry_type_from_sample(samples, format_type)
KindFromSample ==
  /\ fn = "none"
  /\ \E samples \in SeqsUpTo(KindSamples, MaxSamples), format_type \in KindFormats :
       /\ fn' = "get_geometry_type_from_sample"
       /\ args' = [samples |-> samples, format_type |-> format_type]
       /\ result' = get_geometry_type_from_sample(samples, format_type)
       /\ log' = samples_log(samples, format_type, 1)
       /\ UNCHANGED <<history, dialog>>

NextKind == KindFromSample

SpecKind == InitCall /\ [][NextKind]_vars

(***************************************************************************)
(* The runs of import_csv.                                                 *)
(***************************************************************************)
\* the columns of a file: x, y, name for X-Y input, else geom, name
Columns(format_type) ==
  IF format_type = XY
  THEN [x_idx |-> 0, y_idx |-> 1, geom_col_idx |-> -1, headers |-> 3]
  ELSE [x_idx |-> -1, y_idx |-> -1, geom_col_idx |-> 0, headers |-> 2]

\* the rows of a file: well-formed ones, ones that do not decode, short ones
RowSamples(format_type) ==
  IF format_type = XY
  THEN { <<<<"1">>, <<"2">>, <<"a">>>>,
         <<<<"7">>>>,
         <<<<"x">>, <<"2">>, <<"b">>>>,
         <<<<"n","a","n">>, <<"2">>, <<"c">>>>,
         <<>> }
  ELSE { <<<<"P","O","I","N","T","(","1"," ","2",")">>, <<"a">>>>,
         <<<<"L","I","N","E","S","T","R","I","N","G","(","0"," ","0",","," ","1"," ","1",")">>, <<"b">>>>,
         <<<<"P","O","I","N","T"," ","E","M","P","T","Y">>, <<"c">>>>,
         <<<<>>, <<"d">>>>,
         <<<<"j","u","n","k">>>>,
         <<>> }

\* the most data rows of a file
MaxRows == 3

ImportFormats == {WKT, XY}

\* CSVGeometryImportDialog.import_csv, from `features = []` to the end of the loop
Import ==
  /\ fn = "none"
  /\ \E format_type \in ImportFormats, skip_invalid \in BOOLEAN :
       \E data_rows \in SeqsUpTo(RowSamples(format_type), MaxRows) :
         /\ fn' = "import_csv"
         /\ args' = [data_rows |-> data_rows, format_type |-> format_type,
                     skip_invalid |-> skip_invalid]
         /\ result' = import_rows(data_rows, format_type, Columns(format_type), skip_invalid)
         /\ log' = rows_log(data_rows, format_type, Columns(format_type), 1)
         /\ UNCHANGED <<history, dialog>>

NextImport == Import

SpecImport == InitCall /\ [][NextImport]_vars

(***************************************************************************)
(* Sessions: calls of parse and detect_format one after the other.         *)
(***************************************************************************)
\* the calls of parse a session is made of
SessionCalls ==
  { Call(PyStr(<<"P","O","I","N","T","(","1"," ","2",")">>), WKT, PyNone, PyNone),
    Call(PyStr(<<"P","O","I","N","T","(","1"," ","2",")">>), GEOJSON, PyNone, PyNone),
    Call(PyStr(json_dumps(GeometryDoc(tPoint, JArr(<<JNum(1), JNum(2)>>)))), GEOJSON, PyNone, PyNone),
    Call(PyStr(KmlText(<<"L","i","n","e","S","t","r","i","n","g">>, [good |-> 2, short |-> 0], FALSE)), KML, PyNone, PyNone),
    Call(PyStr(json_dumps(TopologyDoc(<<"L","i","n","e","S","t","r","i","n","g">>, <<0, 1>>, 2))), TOPOJSON, PyNone, PyNone),
    Call(PyStr(<<>>), XY, PyInt(3), PyStr(<<"1","2">>)) }

\* the samples detect_format is called with in a session
SessionSamples ==
  { PyNone,
    PyStr(<<"P","O","I","N","T","(","1"," ","2",")">>),
    PyStr(json_dumps(GeometryDoc(tPoint, JArr(<<JNum(1), JNum(2)>>)))) }

\* the most calls of a session
MaxCalls == 4

\* the calls made so far, the last one included
Earlier ==
  IF fn = "none" THEN history
  ELSE Append(history, [fn |-> fn, args |-> args, result |-> result])

\* a parser with an error flag that, once set by a failed call, fails every
\* later call
SessionParseSticky ==
  /\ fn = "none" \/ Len(history) < MaxCalls - 1
  /\ \E c \in SessionCalls :
       /\ fn' = "parse"
       /\ args' = [call |-> c, family |-> "session"]
       /\ result' = IF \E i \in 1..Len(Earlier) :
                         Earlier[i].fn = "parse" /\ Earlier[i].result = Ret(PyNone)
                    THEN Ret(PyNone)
                    ELSE parse(c.value, c.format_type, c.x_value, c.y_value)
       /\ log' = <<>>
       /\ history' = Earlier
       /\ UNCHANGED dialog

\* GeometryParser.parse(value, format_type, x_value=..., y_value=...), after
\* whatever was called before
SessionParse ==
  /\ fn = "none" \/ Len(history) < MaxCalls - 1
  /\ \E c \in SessionCalls :
       /\ fn' = "parse"
       /\ args' = [call |-> c, family |-> "session"]
       /\ result' = parse(c.value, c.format_type, c.x_value, c.y_value)
       /\ log' = parse_log(c.value, c.format_type, c.x_value, c.y_value)
       /\ history' = Earlier
       /\ UNCHANGED dialog

\* GeometryParser.detect_format(sample), after whatever was called before
SessionDetect ==
  /\ fn = "none" \/ Len(history) < MaxCalls - 1
  /\ \E sample \in SessionSamples :
       /\ fn' = "detect_format"
       /\ args' = [sample |-> sample, family |-> "session"]
       /\ result' = detect_format(sample)
       /\ log' = <<>>
       /\ history' = Earlier
       /\ UNCHANGED dialog

NextSession == SessionParse \/ SessionDetect

SpecSession == InitCall /\ [][NextSession]_vars

(***************************************************************************)
(* The dialog: the user's events, handled when no handler runs or inside   *)
(* the processEvents call of a running import_csv.                         *)
(***************************************************************************)
Engine == <<fn, args, result, log, history>>

\* browse_btn.clicked, with the file chosen in the file dialog
BrowseFile ==
  /\ ~dialog.closed /\ dialog.running = <<>>
  /\ \E file_path \in CsvFiles :
       dialog' = Stepped(browse_file(dialog, file_path), "browse_file", "none")
  /\ UNCHANGED Engine

\* delimiter_combo, encoding_combo or has_header_check changed
OptionsChanged ==
  /\ ~dialog.closed
  /\ dialog' = Stepped(on_csv_options_changed(dialog), "on_csv_options_changed", "none")
  /\ UNCHANGED Engine

\* reload_btn.clicked; the button is enabled once a file was chosen
Reload ==
  /\ ~dialog.closed /\ dialog.csv_path /= NoFile
  /\ dialog' = Stepped(on_csv_options_changed(dialog), "reload_csv", "none")
  /\ UNCHANGED Engine

\* format_combo.currentIndexChanged
FormatChanged ==
  /\ ~dialog.closed
  /\ \E text \in FormatTexts :
       dialog' = Stepped([dialog EXCEPT !.format_combo = text], "on_format_changed", "none")
  /\ UNCHANGED Engine

\* import_btn.clicked: only an enabled button can be clicked
ImportClicked ==
  /\ ~dialog.closed /\ dialog.import_btn /\ Len(dialog.running) < MaxDepth
  /\ \E course \in Courses(dialog.csv_path) : dialog' = import_csv(dialog, course)
  /\ UNCHANGED Engine

\* QCoreApplication.processEvents() returns to the import_csv that called it
ProcessEventsReturns ==
  /\ dialog.running /= <<>>
  /\ \E course \in {"error", "loop"} : dialog' = import_resume(dialog, course)
  /\ UNCHANGED Engine

\* cancel_btn.clicked
Cancel ==
  /\ ~dialog.closed
  /\ dialog' = Stepped([dialog EXCEPT !.closed = TRUE], "reject", "none")
  /\ UNCHANGED Engine

NextDialog ==
  \/ BrowseFile \/ OptionsChanged \/ Reload \/ FormatChanged
  \/ ImportClicked \/ ProcessEventsReturns \/ Cancel

SpecDialog == InitCall /\ [][NextDialog]_vars

(***************************************************************************)
(* Properties of parse.                                                    *)
(***************************************************************************)
Failure == Ret(PyNone)

SupportedTags == {all_formats[i] : i \in 1..Len(all_formats)} \cup {JSON}

C3_FailureSignal ==
  fn = "parse" =>
    LET value == args.call.value
        format_type == args.call.format_type
    IN /\ format_type \notin SupportedTags => result = Failure
       /\ format_type /= XY /\ ~IsStr(value) => result = Failure
       /\ format_type /= XY /\ IsStr(value) /\ strip(value.s) = <<>> => result = Failure

C3_Witness ==
  /\ fn = "parse"
  /\ args.call.format_type = Shapefile
  /\ IsStr(args.call.value)
  /\ IsGeom(parse(args.call.value, WKT, PyNone, PyNone).v)
  /\ result = Failure

\* float(v) gives a finite number
IsFiniteNumber(v) == ~IsRaise(float_of(v)) /\ float_of(v).v.c = "finite"

\* C7: the coordinate-pair path succeeds only when both x and y are present
\* and are finite numbers: a missing, non-numeric, NaN or infinite x or y gives
\* None, and a finite pair gives the Point at (x, y).
C7_FinitePairOnly ==
  fn = "parse" /\ args.family = "xy" =>
    LET x == args.call.x_value
        y == args.call.y_value
    IN IF IsFiniteNumber(x) /\ IsFiniteNumber(y)
       THEN result = Ret(fromPointXY(<<float_of(x).v, float_of(y).v>>))
       ELSE result = Failure

\* the rings of the shapes that keep at least 3 points, in the order given
SurvivingRings(shapes) ==
  LET kept == SelectSeq([r \in 1..Len(shapes) |-> r], LAMBDA r : shapes[r].good >= 3)
  IN [k \in 1..Len(kept) |-> [i \in 1..shapes[kept[k]].good |-> GoodPoint(kept[k], i)]]

\* C9: for a GeoJSON Polygon whose rings are lists of points, the decoded rings
\* are exactly the input rings that keep at least 3 points once the points of
\* fewer than 2 components are dropped, in their original order, and the decode
\* fails exactly when no ring survives.
C9_PolygonRings ==
  fn = "parse" /\ args.family = "polygon" =>
    LET rings == SurvivingRings(args.shapes)
    IN IF rings = <<>> THEN result = Failure
       ELSE result = Ret(fromPolygonXY(rings))

C9_Witness ==
  /\ fn = "parse"
  /\ args.family = "polygon"
  /\ Len(args.shapes) = 2
  /\ args.shapes[1].good = 2
  /\ args.shapes[2] = [good |-> 4, short |-> 1]
  /\ result = Ret(fromPolygonXY(<<<<<<21, 1>>, <<22, 2>>, <<23, 3>>, <<24, 4>>>>>>))

\* what a member gives when it is decoded on its own
MemberAlone(i) == parse(PyStr(json_dumps(MemberDocs[i])), GEOJSON, PyNone, PyNone)

\* the union of a non-empty list of geometries
United(gs) ==
  IF Len(gs) = 1 THEN gs[1]
  ELSE [kind |-> "Combined", parts |-> UNION {Parts(gs[i]) : i \in 1..Len(gs)}]

\* C10: a GeoJSON GeometryCollection decodes whenever at least one member
\* decodes on its own, to the union of exactly those members; a member that does
\* not decode, one whose decoding raises included, is skipped, and the collection
\* fails only when no member decodes.
C10_PartialSuccess ==
  fn = "parse" /\ args.family = "collection" =>
    LET good == SelectSeq(args.picks, LAMBDA i : IsGeom(MemberAlone(i).v))
    IN IF good = <<>> THEN result = Failure
       ELSE result = Ret(United([k \in 1..Len(good) |-> MemberAlone(good[k]).v]))

\* every ring has at least 3 points and there is at least one ring
RingsPopulated(rings) ==
  Len(rings) >= 1 /\ \A r \in 1..Len(rings) : Len(rings[r]) >= 3

\* a geometry that is not a union has the points its kind needs
PartPopulated(g) ==
  CASE g.kind = "Point" -> Len(g.xy) = 2
    [] g.kind = "MultiPoint" -> Len(g.mpoints) >= 1
    [] g.kind = "LineString" -> Len(g.points) >= 2
    [] g.kind = "MultiLineString" ->
         Len(g.lines) >= 1 /\ \A l \in 1..Len(g.lines) : Len(g.lines[l]) >= 2
    [] g.kind = "Polygon" -> RingsPopulated(g.rings)
    [] g.kind = "MultiPolygon" ->
         Len(g.polygons) >= 1 /\ \A q \in 1..Len(g.polygons) : RingsPopulated(g.polygons[q])
    [] OTHER -> FALSE

Populated(g) == Parts(g) /= {} /\ \A part \in Parts(g) : PartPopulated(part)

DecoderTags == {GEOJSON, JSON, EARTH_ENGINE, KML, TOPOJSON}

\* C8: the GeoJSON, Earth Engine, KML and TopoJSON decoders return no empty or
\* under-populated geometry: a returned line has at least 2 points, every ring of
\* a returned polygon at least 3 points and the polygon at least 1 ring, a
\* returned multi-geometry at least 1 member; an input that would give less
\* gives None.
C8_NoUnderPopulated ==
  fn = "parse" /\ args.call.format_type \in DecoderTags =>
    /\ result.k = "return"
    /\ result = Failure \/ (IsGeom(result.v) /\ Populated(result.v))

C8_Witness ==
  /\ fn = "parse"
  /\ args.family = "topojson"
  /\ args.word = <<"P","o","l","y","g","o","n">>
  /\ args.refs = <<0>>
  /\ args.depth = 2
  /\ result = Failure

(***************************************************************************)
(* Properties of the TopoJSON decoder, over the arcs of ArcTable.          *)
(***************************************************************************)
\* the points of the arcs of ArcTable, delta decoding done
ArcLines ==
  << <<<<0, 0>>, <<1, 0>>>>,
     <<<<1, 0>>, <<1, 1>>, <<0, 0>>>>,
     <<<<5, 5>>>> >>

\* the position a reference selects
RefPosition(ref) == IF ref >= 0 THEN ref + 1 ELSE 0 - ref

RefValid(ref) == RefPosition(ref) \in 1..Len(ArcLines)

\* the points a valid reference contributes
RefLine(ref) ==
  LET line == ArcLines[RefPosition(ref)]
  IN IF ref >= 0 THEN line ELSE [i \in 1..Len(line) |-> line[Len(line) + 1 - i]]

\* the lines of the references joined, a junction point kept once
RECURSIVE Stitched(_, _, _)
Stitched(refs, i, acc) ==
  IF i > Len(refs) THEN acc
  ELSE LET line == RefLine(refs[i])
       IN Stitched(refs, i + 1,
            IF acc /= <<>> /\ acc[Len(acc)] = line[1] THEN acc \o Tail(line) ELSE acc \o line)

wLineString == <<"L","i","n","e","S","t","r","i","n","g">>

wMultiLineString == <<"M","u","l","t","i","L","i","n","e","S","t","r","i","n","g">>

wPolygon == <<"P","o","l","y","g","o","n">>

wMultiPolygon == <<"M","u","l","t","i","P","o","l","y","g","o","n">>

\* how deep the arcs of a kind are nested
ProperDepth(word) ==
  CASE word = wLineString -> 1
    [] word \in {wMultiLineString, wPolygon} -> 2
    [] word = wMultiPolygon -> 3

\* C11: a TopoJSON linestring whose arcs lists two arc indices, the second arc
\* starting at the point the first one ends at, decodes to one LineString with
\* the points of both arcs in order and the junction point once; an arc given by
\* a negative index contributes its points reversed.
C11_TwoArcLine ==
  fn = "parse" /\ args.family = "topojson" /\ args.word = wLineString /\ args.depth = 1
    /\ (\A i \in 1..Len(args.refs) : RefValid(args.refs[i])) =>
    /\ ( /\ Len(args.refs) = 2
         /\ RefLine(args.refs[1])[Len(RefLine(args.refs[1]))] = RefLine(args.refs[2])[1] )
       => result = Ret(fromPolylineXY(Stitched(args.refs, 1, <<>>)))
    /\ args.refs = <<-1>> => result = Ret(fromPolylineXY(RefLine(-1)))

\* C19: a linestring, multilinestring, polygon or multipolygon that refers to
\* an arc index outside the arc table gives None, also when its other references
\* are valid.
C19_ArcOutOfRange ==
  fn = "parse" /\ args.family = "topojson" /\ args.depth = ProperDepth(args.word)
    /\ (\E i \in 1..Len(args.refs) : ~RefValid(args.refs[i])) =>
    result = Failure

\* C20: a TopoJSON multipolygon whose arcs is nested polygon, ring, arc index,
\* all indices valid, decodes to a MultiPolygon with one polygon for each entry
\* and one ring for each ring entry; a ring of fewer than 3 points is dropped and
\* the decode fails only if no polygon keeps a ring.
C20_MultiPolygonArcs ==
  fn = "parse" /\ args.family = "topojson" /\ args.word = wMultiPolygon /\ args.depth = 3
    /\ args.refs /= <<>> /\ (\A i \in 1..Len(args.refs) : RefValid(args.refs[i])) =>
    LET ring == Stitched(args.refs, 1, <<>>)
    IN IF Len(ring) >= 3 THEN result = Ret(fromMultiPolygonXY(<<<<ring>>>>))
       ELSE result = Failure

\* the deltas of the arc at a position of ArcTable
ArcDeltas(pos) ==
  [j \in 1..Len(ArcTable.v[pos].v) |->
     <<ArcTable.v[pos].v[j].v[1].v, ArcTable.v[pos].v[j].v[2].v>>]

\* the sum of the first i deltas, coordinate k
RECURSIVE PrefixSum(_, _, _)
PrefixSum(deltas, i, k) == IF i = 0 THEN 0 ELSE PrefixSum(deltas, i - 1, k) + deltas[i][k]

\* the absolute points of an arc: the running sums of its deltas from (0,0)
Summed(deltas) == [i \in 1..Len(deltas) |-> <<PrefixSum(deltas, i, 1), PrefixSum(deltas, i, 2)>>]

\* the points a reference yields: arc r forward, or arc -r-1 backward
Traversed(r) ==
  LET points == Summed(ArcDeltas(IF r >= 0 THEN r + 1 ELSE (0 - r - 1) + 1))
  IN IF r >= 0 THEN points ELSE [i \in 1..Len(points) |-> points[Len(points) + 1 - i]]

\* the object kinds whose arcs is a list of lines or rings, with the fewest
\* points a line or ring is kept with
LineKinds == {wMultiLineString, wPolygon}

FewestPoints(word) == IF word = wPolygon THEN 3 ELSE 2

\* the geometry of one line or ring of a kind
OfOneLine(word, line) ==
  IF word = wPolygon THEN fromPolygonXY(<<line>>) ELSE fromMultiPolylineXY(<<line>>)

\* C21: an arc reference r >= 0 yields the points of arc r forward and r < 0
\* the points of arc -r-1 in reverse; the points of an arc are the running sums
\* of its deltas from (0,0) in array order, reversed after summing.
C21_ArcReference ==
  fn = "parse" /\ args.family = "topojson" /\ args.word \in LineKinds /\ args.depth = 2
    /\ Len(args.refs) = 1 /\ RefValid(args.refs[1]) =>
    LET line == Traversed(args.refs[1])
    IN IF Len(line) >= FewestPoints(args.word)
       THEN result = Ret(OfOneLine(args.word, line))
       ELSE result = Failure

C21_Witness ==
  /\ fn = "parse" /\ args.family = "topojson" /\ args.word = wMultiLineString
  /\ args.depth = 2 /\ args.refs = <<-2>>
  /\ result = Ret(fromMultiPolylineXY(<< <<<<0, 0>>, <<1, 1>>, <<1, 0>>>> >>))

\* C22: inside one ring or line given as a list of arc indices the resolved
\* points are the decoded arcs concatenated in reference order, the first point
\* of an arc dropped exactly when it equals the last point accumulated so far.
C22_JunctionCollapse ==
  fn = "parse" /\ args.family = "topojson" /\ args.word \in LineKinds /\ args.depth = 2
    /\ args.refs /= <<>> /\ (\A i \in 1..Len(args.refs) : RefValid(args.refs[i])) =>
    LET line == Stitched(args.refs, 1, <<>>)
    IN IF Len(line) >= FewestPoints(args.word)
       THEN result = Ret(OfOneLine(args.word, line))
       ELSE result = Failure

C22_Witness ==
  /\ fn = "parse" /\ args.family = "topojson" /\ args.word = wPolygon
  /\ args.depth = 2 /\ args.refs = <<0, 1>>
  /\ result = Ret(fromPolygonXY(<< <<<<0, 0>>, <<1, 0>>, <<1, 1>>, <<0, 0>>>> >>))

\* C23: a TopoJSON document without top-level type and coordinates whose
\* objects is missing or empty, or whose arcs is missing, gives None, whatever
\* the kind of its first object.
C23_TopologyRequirements ==
  fn = "parse" /\ args.family = "topology"
    /\ (args.objects \in {"missing", "empty"} \/ ~args.hasArcs) =>
    result = Failure

(***************************************************************************)
(* Properties of the KML decoder.                                          *)
(***************************************************************************)
\* C18: in a KML document with several coordinates elements the points come
\* from the first coordinates element and the Point/LineString/Polygon choice is
\* made from the tag of the parent of that same element: the outcome is the one
\* of the first geometry element decoded alone.
C18_KmlOwnParent ==
  fn = "parse" /\ args.family = "kml_pair" =>
    result = parse_kml(KmlText(args.first, args.shape, FALSE))

\* the tuples of a generated coordinates element that survive: those of two
\* or more numbers, as points
Survivors(shape, closed) ==
  [i \in 1..(shape.good + (IF closed /\ shape.good > 0 THEN 1 ELSE 0)) |->
     IF i <= shape.good THEN <<10 + i, i>> ELSE <<11, 1>>]

\* the parent tags that name no kind
wPlacemark == <<"P","l","a","c","e","m","a","r","k">>

wLinearRing == <<"L","i","n","e","a","r","R","i","n","g">>

\* the geometry the point count alone gives
ByCount(points) ==
  IF Len(points) = 1 THEN fromPointXY(points[1])
  ELSE IF Len(points) >= 3 /\ points[1] = points[Len(points)] THEN fromPolygonXY(<<points>>)
  ELSE fromPolylineXY(points)

\* C27: when the parent tag of the coordinates element names none of point,
\* linestring, polygon, linearring, or there is no parent, the surviving points
\* alone decide: 1 point gives a Point, 3 or more with the first equal to the
\* last a single-ring Polygon, any other count of 2 or more a LineString.
C27_CountFallback ==
  fn = "parse" /\ args.family \in {"kml", "kml_root"} /\ args.parent \in {wPlacemark, <<>>}
    /\ Survivors(args.shape, args.closed) /= <<>> =>
    result = Ret(ByCount(Survivors(args.shape, args.closed)))

C27_Witness ==
  /\ fn = "parse" /\ args.family = "kml_root" /\ args.shape.good = 3 /\ args.closed
  /\ result = Ret(fromPolygonXY(<< << <<11, 1>>, <<12, 2>>, <<13, 3>>, <<11, 1>> >> >>))

\* C28: KML decoding gives a geometry whenever a coordinate tuple survives: a
\* parent tag that names a kind the points are too few for falls back on the
\* count, so LineString with 1 point gives a Point, Polygon or LinearRing with
\* 1 point a Point and with 2 points a LineString.
C28_TooFewForParent ==
  fn = "parse" /\ args.family \in {"kml", "kml_root"}
    /\ Survivors(args.shape, args.closed) /= <<>> =>
    LET points == Survivors(args.shape, args.closed)
    IN /\ ~IsRaise(result) /\ IsGeom(result.v)
       /\ args.parent = wLineString /\ Len(points) = 1 => result = Ret(fromPointXY(points[1]))
       /\ args.parent \in {wPolygon, wLinearRing} /\ Len(points) = 1 =>
            result = Ret(fromPointXY(points[1]))
       /\ args.parent \in {wPolygon, wLinearRing} /\ Len(points) = 2 =>
            result = Ret(fromPolylineXY(points))

C28_Witness ==
  /\ fn = "parse" /\ args.family = "kml" /\ args.parent = wLinearRing
  /\ args.shape.good = 2 /\ ~args.closed
  /\ result = Ret(fromPolylineXY(<< <<11, 1>>, <<12, 2>> >>))

(***************************************************************************)
(* Properties of the GeometryCollection union.                             *)
(***************************************************************************)
\* the same collection with its members in the opposite order, decoded
Reordered(picks) ==
  parse(PyStr(json_dumps(CollectionDoc(Reverse(picks)))), GEOJSON, PyNone, PyNone)

\* C15: a GeoJSON GeometryCollection with members [A, B] and the one with
\* members [B, A] decode to equal results, and a collection of two disjoint Points
\* decodes to one non-empty combined geometry that holds both points.
C15_UnionOrder ==
  fn = "parse" /\ args.family = "collection" =>
    /\ result = Reordered(args.picks)
    /\ args.picks = <<1, 7>> =>
         /\ IsGeom(result.v)
         /\ Parts(result.v) = {fromPointXY(<<1, 2>>), fromPointXY(<<3, 4>>)}

\* the two disjoint Points were decoded and united
C15_Witness ==
  /\ fn = "parse" /\ args.family = "collection" /\ args.picks = <<1, 7>>
  /\ result.k = "return" /\ IsGeom(result.v) /\ Cardinality(Parts(result.v)) = 2

(***************************************************************************)
(* Properties of the EWKT decoder.                                         *)
(***************************************************************************)
\* the EWKT text with the same geometry body under another SRID
Resrid(value, digits) ==
  <<"S","R","I","D","=">> \o digits \o <<";">> \o ewkt_match(value).wkt_part

SridSamples == {<<"4","3","2","6">>, <<"3","8","5","7">>}

\* C12: decoding an EWKT value SRID=n;<wkt> makes n available to the caller
\* beside the geometry: what the call hands back for SRID n differs from what it
\* hands back for the same geometry under another SRID.
C12_SridAvailable ==
  fn = "parse" /\ args.family = "text" /\ args.call.format_type = EWKT
    /\ IsStr(args.call.value) /\ IsGeom(result.v) =>
    LET value == strip(args.call.value.s)
    IN \A digits \in SridSamples :
         digits /= ewkt_match(value).srid =>
           parse(PyStr(Resrid(value, digits)), EWKT, PyNone, PyNone) /= result

\* the prefix SRID= in any letter case
IsSridPrefix(prefix) == upper(prefix) = <<"S","R","I","D","=">>

\* C24: an EWKT value SRID=<digits>;<rest>, SRID in any letter case and <rest>
\* non-empty and possibly on several lines, decodes to what the whole <rest>
\* decodes to under WKT; a value without that prefix gives None.
C24_EwktIsWktOfRest ==
  fn = "parse" /\ args.family = "ewkt" =>
    IF IsSridPrefix(args.prefix) /\ args.digits /= <<>>
    THEN result = parse(PyStr(args.rest), WKT, PyNone, PyNone)
    ELSE result = Failure

(***************************************************************************)
(* Properties of the Earth Engine and GeoJSON decoders.                    *)
(***************************************************************************)
\* C25: ee.Geometry.Rectangle or ee.Geometry.BBox with an array of exactly four
\* numbers [west, south, east, north] decodes to the Polygon of the one ring
\* (west,south), (east,south), (east,north), (west,north), (west,south); with an
\* array of any other length the decode fails.
C25_RectangleFourNumbers ==
  fn = "parse" /\ args.family = "rectangle" =>
    IF args.count = 4
    THEN result = Ret(fromPolygonXY(<< << <<1, 2>>, <<3, 2>>, <<3, 4>>, <<1, 4>>, <<1, 2>> >> >>))
    ELSE result = Failure

\* C26: a Feature decodes to what its geometry member decodes to on its own; a
\* Feature whose geometry is missing or null gives None; the type of a geometry
\* is matched in any letter case and any other or missing type gives None.
C26_FeatureUnwrapped ==
  fn = "parse" /\ args.family = "feature" =>
    /\ args.wrap = "feature" =>
         result = parse(PyStr(json_dumps(FeatureDocs[args.i].doc)), GEOJSON, PyNone, PyNone)
    /\ args.wrap \in {"bare", "feature"} => result = FeatureDocs[args.i].geom
    /\ args.wrap \in {"missing", "null"} => result = Failure

C26_Witness ==
  /\ fn = "parse" /\ args.family = "feature" /\ args.wrap = "feature" /\ args.i = 2
  /\ result = Ret(fromPointXY(<<1, 2>>))

(***************************************************************************)
(* Properties of get_geometry_type_from_sample.                            *)
(***************************************************************************)
\* the positions of the samples that decode under the format
Decoding(samples, format_type) ==
  {i \in 1..Len(samples) : IsGeom(parse(samples[i], format_type, PyNone, PyNone).v)}

\* C16: get_geometry_type_from_sample returns the kind of the first sample, in
\* list order, that decodes under the format, empty and failing samples passed
\* over, and Unknown when no sample decodes.
C16_FirstDecodedKind ==
  fn = "get_geometry_type_from_sample" =>
    LET hits == Decoding(args.samples, args.format_type)
        first == CHOOSE i \in hits : \A j \in hits : i <= j
    IN IF hits = {} THEN result = Ret(QgsWkbTypesUnknown)
       ELSE result = Ret(parse(args.samples[first], args.format_type, PyNone, PyNone).v.kind)

\* a failing sample and an empty one were passed over before the one that gave
\* the kind
C16_Witness ==
  /\ fn = "get_geometry_type_from_sample"
  /\ Len(args.samples) = 3
  /\ args.samples[2] = PyStr(<<>>)
  /\ Decoding(args.samples, args.format_type) = {3}
  /\ result = Ret("LineString")

(***************************************************************************)
(* Properties of the import loop.                                          *)
(***************************************************************************)
\* the row does not decode
RowFails(row, format_type) ==
  LET geom == row_geometry(row, format_type, Columns(format_type))
  IN geom.k = "return" /\ (IsNone(geom.v) \/ isNull(geom.v))

\* the rows that decode, in file order
Decoded(data_rows, format_type) ==
  SelectSeq(data_rows, LAMBDA row : ~RowFails(row, format_type))

\* C17: the import loop never aborts on a row that fails to decode: every row
\* is processed in order; with skip-invalid on a failing row adds no feature and
\* features plus invalid count equals the number of rows; with skip-invalid off
\* a failing row adds one feature with an empty geometry and the number of
\* features equals the number of rows.
C17_BatchNeverAborts ==
  fn = "import_csv" =>
    LET rows == args.data_rows
        cols == Columns(args.format_type)
        good == Decoded(rows, args.format_type)
        features == result.v.features
    IN /\ result.k = "return"
       /\ result.v.invalid_count = Len(rows) - Len(good)
       /\ IF args.skip_invalid
          THEN /\ Len(features) + result.v.invalid_count = Len(rows)
               /\ Len(features) = Len(good)
               /\ \A k \in 1..Len(good) :
                    /\ features[k].attributes = row_attrs(good[k], cols)
                    /\ features[k].geometry = row_geometry(good[k], args.format_type, cols).v
          ELSE /\ Len(features) = Len(rows)
               /\ \A i \in 1..Len(rows) :
                    /\ features[i].attributes = row_attrs(rows[i], cols)
                    /\ features[i].geometry =
                         IF RowFails(rows[i], args.format_type) THEN NullGeometry
                         ELSE row_geometry(rows[i], args.format_type, cols).v

\* a failing row between two rows that decode, skipped
C17_Witness ==
  /\ fn = "import_csv" /\ args.skip_invalid /\ Len(args.data_rows) = 3
  /\ ~RowFails(args.data_rows[1], args.format_type)
  /\ RowFails(args.data_rows[2], args.format_type)
  /\ ~RowFails(args.data_rows[3], args.format_type)
  /\ result.k = "return" /\ Len(result.v.features) = 2 /\ result.v.invalid_count = 1

(***************************************************************************)
(* Properties of the message log.                                          *)
(***************************************************************************)
\* the text of the messages that name a format
FormatText(format_type) ==
  CASE format_type = WKB -> "WKB parsing error"
    [] format_type = EWKB -> "EWKB parsing error"
    [] format_type \in {GEOJSON, JSON} -> "GeoJSON parsing error"
    [] format_type = KML -> "KML parsing error"
    [] format_type = EARTH_ENGINE -> "Earth Engine parsing error"
    [] format_type = TOPOJSON -> "TopoJSON parsing error"
    [] OTHER -> "Unknown geometry format"

\* the message names the format and quotes a cause
Diagnostic(message, format_type) ==
  /\ message.text = FormatText(format_type)
  /\ message.cause /= ""
  /\ message.text = "Unknown geometry format" => message.cause = format_type

\* C13: every decode failure carries a diagnostic: whenever parse returns None
\* for a non-blank text (malformed JSON or XML, bad hex, too few coordinates,
\* unknown geometry type, missing coordinates element, unmatched EWKT prefix), the
\* call writes a message that names the format and the cause.
C13_FailureDiagnosed ==
  fn = "parse" /\ args.call.format_type /= XY /\ IsStr(args.call.value)
    /\ strip(args.call.value.s) /= <<>> /\ result = Failure =>
    \E i \in 1..Len(log) : Diagnostic(log[i], args.call.format_type)

C29_NoReentrantImport ==
  dialog.running /= <<>> => ~dialog.import_btn /\ Len(dialog.running) = 1

\* the ways an import_csv call that got past its checks ends
Endings == {"success", "empty", "column", "layer", "error"}

\* C30: every import_csv call that gets past the file and format checks ends
\* with the progress bar hidden and the Import button enabled, whether it
\* succeeded, stopped with a warning or hit an error; a call stopped by the
\* checks changes neither widget and creates no layer.
C30_ImportCleanup ==
  [][/\ (dialog'.step = "import_csv" /\ dialog'.outcome \in Endings) =>
          ~dialog'.progress_bar /\ dialog'.import_btn
     /\ (dialog'.step = "import_csv" /\ dialog'.outcome = "refused") =>
          /\ dialog'.progress_bar = dialog.progress_bar
          /\ dialog'.import_btn = dialog.import_btn
          /\ dialog'.layers = dialog.layers]_vars

C30_Witness ==
  /\ dialog.step = "import_csv" /\ dialog.outcome = "error"
  /\ ~dialog.progress_bar /\ dialog.import_btn

====
